---- MODULE Spec2Model ----
(***************************************************************************)
(* Pharmacy e-commerce backend (armahpen/backend-smilepill-).               *)
(*                                                                         *)
(* The database tables of shared/schema.ts are the state; the methods of   *)
(* DatabaseStorage (storage.ts, src/unnamed/part_000) and the handlers of  *)
(* routes.ts are the actions.  Rows are records; users, products and       *)
(* prescriptions are sets of rows, admin_permissions, cart_items, orders   *)
(* and order_items are sequences of rows in insertion order.  SQL NULL is  *)
(* the string NULL, an omitted argument the string Undefined; an optional  *)
(* single row (const [row] = await db.select()...) is a set with zero or   *)
(* one element.                                                            *)
(*                                                                         *)
(* Specifications: SpecAuth (register, login, logout), SpecPerm (the       *)
(* permission operations), SpecRole (setUserAdmin), SpecAdmin (the         *)
(* /api/admin routes), SpecSubmit (prescription submission), SpecCart      *)
(* (cart calls one after the other), SpecCartConc (addToCart calls         *)
(* interleaved), SpecOrder (createOrder, getOrder), SpecOrderLife (status  *)
(* and price updates after createOrder), SpecOrderRefs (deletes of         *)
(* referenced rows), SpecCatalog (catalog operations), SpecSeed (the       *)
(* seeding utility and clearAllData), SpecSeedKeys (seeding of names with  *)
(* hyphens), SpecClear (clearAllData over a filled database),              *)
(* SpecOrderList (getOrders), SpecCartRemove (removeFromCart, clearCart),  *)
(* SpecUpsert (upsertUser), SpecReview (updatePrescriptionStatus),         *)
(* SpecRegisterConc (register requests interleaved), SpecRevoke (admin     *)
(* requests between grants and revocations).                               *)
(***************************************************************************)
EXTENDS Integers, Sequences, FiniteSets, TLC

VARIABLES
    users,            \* table users
    adminPermissions, \* table admin_permissions, in insertion order
    products,         \* table products
    prescriptions,    \* table prescriptions
    cartItems,        \* table cart_items, in insertion (createdAt) order
    orders,           \* table orders, in insertion (createdAt) order
    orderItems,       \* table order_items, in insertion order
    sessionUserId,    \* (req.session as any).userId of the browsing client
    categories,       \* table categories
    brands,           \* table brands
    calls,            \* addToCart calls in flight, by request
    added,            \* quantity passed to completed addToCart calls, by (user, product)
    out               \* outcome of the latest operation: an HTTP response or a storage call's result

vars == <<users, adminPermissions, products, prescriptions, cartItems, orders,
          orderItems, categories, brands, sessionUserId, calls, added, out>>

-----------------------------------------------------------------------------
(* Bounds of the model *)

MaxUsers == 2        \* rows createUser may add (generated ids u1..uN)
MaxQty == 3          \* cap on the quantity a cart row or a (user, product) pair accumulates
MaxPermRows == 2     \* cap on the rows of admin_permissions (permission operations alone)
MaxGrants == 1       \* cap on the rows of admin_permissions (with the admin routes)
MaxOrders == 2       \* cap on the rows of orders
MaxClock == 3        \* cap on the creation times of products (catalog operations)
MaxItems == 2        \* cap on the items of catalog_data.json
MaxPrescriptions == 2   \* cap on the stored prescriptions

-----------------------------------------------------------------------------
(* Values *)

NULL == "NULL"
Undefined == "undefined"   \* an omitted optional argument or body field
Missing == ""        \* a body field that is absent or empty (falsy)

Usernames == {"alice", "bob"}
Emails == {"a@x.com", "b@x.com"}
Passwords == {"pw123", "pw456"}
ExternalSubs == {"x1"}      \* identifiers issued by the external identity provider

Id(prefix, n) == prefix \o ToString(n)

\* gen_random_uuid(): an identifier no row in `used` has (the first unused one).
FreshId(prefix, used) ==
    Id(prefix, CHOOSE i \in 1..(Cardinality(used) + 1) :
                  /\ Id(prefix, i) \notin used
                  /\ \A j \in 1..(i - 1) : Id(prefix, j) \in used)

\* drizzle's update().set(values) leaves a value that is undefined out of the SET
\* clause and writes every other value (null included).  Given(field, value) is
\* the part of the SET clause an optional argument contributes.
Given(field, value) ==
    IF value = Undefined THEN [x \in {} |-> x] ELSE (field :> value)

\* The row after UPDATE ... SET values.
ApplySet(row, values) ==
    [f \in DOMAIN row |-> IF f \in DOMAIN values THEN values[f] ELSE row[f]]

\* bcryptjs: hash(password, 10) and compare(password, hash).
bcryptHash(password) == "$2a$10$" \o password

\* Faulty variant: the comparison's promise is used without await, and is always truthy.
bcryptCompare_notAwaited(password, hash) == TRUE

bcryptCompare(password, hash) == hash = bcryptHash(password)

\* const { password: _, ...userWithoutPassword } = user
WithoutPassword(user) == [f \in DOMAIN user \ {"password"} |-> user[f]]

NoOutcome == [op |-> "none"]

\* An HTTP response: the route answered, the status, the message or error text,
\* whether the route handler (after the middleware chain) was entered, and the
\* user objects placed in the JSON body.
Response(route, status, message, handler, bodyUsers) ==
    [op |-> route, status |-> status, message |-> message,
     handler |-> handler, users |-> bodyUsers]

-----------------------------------------------------------------------------
(* users *)

UserDefaults ==
    [id |-> NULL, username |-> NULL, email |-> NULL, password |-> NULL,
     isAdmin |-> FALSE, adminRole |-> NULL]

getUserById(id) == {u \in users : u.id = id}

\* Faulty variant: the lookup compares the e-mail column.
getUserByUsername_wrongColumn(username) == {u \in users : u.email = username}

getUserByUsername(username) == {u \in users : u.username = username}
getUserByEmail(email) == {u \in users : u.email = email}

GeneratedUsers == {u \in users : u.id \notin ExternalSubs}

\* The users table accepts `row` beside the rows `others`: primary key id,
\* unique username, unique email (NULLs never conflict).
UsersAccept(others, row) ==
    \A u \in others :
        /\ u.id # row.id
        /\ row.username # NULL => u.username # row.username
        /\ row.email # NULL => u.email # row.email

\* The row createUser inserts; gen_random_uuid() is the next unused generated id.
createUserRow(userData) ==
    [id |-> Id("u", Cardinality(GeneratedUsers) + 1),
     username |-> userData.username,
     email |-> userData.email,
     password |-> userData.password,
     isAdmin |-> userData.isAdmin,
     adminRole |-> NULL]

\* Faulty variant: on conflict the row is replaced by a freshly inserted one.
upsertUserRow_replacesRow(userData) ==
    [f \in DOMAIN UserDefaults |->
        IF f \in DOMAIN userData THEN userData[f] ELSE UserDefaults[f]]

\* The row upsertUser leaves for userData.id: the inserted row when the id is
\* new, else the old row with every provided field overwritten.
upsertUserRow(userData) ==
    LET old == getUserById(userData.id)
        base == IF old = {} THEN UserDefaults ELSE CHOOSE u \in old : TRUE
    IN [f \in DOMAIN base |-> IF f \in DOMAIN userData THEN userData[f] ELSE base[f]]

UpsertInputs ==
    {[id |-> i, email |-> e] : i \in ExternalSubs, e \in Emails}
    \cup {[id |-> i, username |-> n] : i \in ExternalSubs, n \in Usernames}

\* storage.upsertUser(userData), as called at external-identity login.
UpsertUser(userData) ==
    LET row == upsertUserRow(userData)
        others == users \ getUserById(userData.id)
    IN /\ IF UsersAccept(others, row)
          THEN /\ users' = others \cup {row}
               /\ out' = [op |-> "upsertUser", threw |-> FALSE, id |-> row.id]
          ELSE /\ users' = users
               /\ out' = [op |-> "upsertUser", threw |-> TRUE, id |-> userData.id]
       /\ UNCHANGED <<adminPermissions, products, prescriptions, cartItems, orders,
                      orderItems, sessionUserId, calls, added,
                   categories, brands>>

-----------------------------------------------------------------------------
(* Password authentication routes *)

Credentials ==
    [username : Usernames \cup {Missing}, password : Passwords \cup {Missing}]

Registrations ==
    [username : Usernames \cup {Missing}, email : Emails \cup {Missing},
     password : {"pw123", Missing}]

\* POST /api/auth/login
Login(body) ==
    LET found == getUserByUsername(body.username)
        user == CHOOSE u \in found : TRUE
    IN /\ IF body.username = Missing \/ body.password = Missing
          THEN /\ out' = Response("POST /api/auth/login", 400,
                                  "Username and password are required", TRUE, {})
               /\ UNCHANGED sessionUserId
          ELSE IF found = {} \/ user.password = NULL
          THEN /\ out' = Response("POST /api/auth/login", 401,
                                  "Invalid credentials", TRUE, {})
               /\ UNCHANGED sessionUserId
          ELSE IF ~bcryptCompare(body.password, user.password)
          THEN /\ out' = Response("POST /api/auth/login", 401,
                                  "Invalid credentials", TRUE, {})
               /\ UNCHANGED sessionUserId
          ELSE /\ sessionUserId' = user.id
               /\ out' = Response("POST /api/auth/login", 200,
                                  "Login successful", TRUE, {WithoutPassword(user)})
       /\ UNCHANGED <<users, adminPermissions, products, prescriptions, cartItems,
                      orders, orderItems, calls, added,
                   categories, brands>>

\* POST /api/auth/register
Register(body) ==
    LET newUser == createUserRow([username |-> body.username, email |-> body.email,
                                  password |-> bcryptHash(body.password),
                                  isAdmin |-> FALSE])
    IN /\ IF body.username = Missing \/ body.email = Missing \/ body.password = Missing
          THEN /\ out' = Response("POST /api/auth/register", 400,
                                  "All fields are required", TRUE, {})
               /\ UNCHANGED <<users, sessionUserId,
                   categories, brands>>
          ELSE IF getUserByUsername(body.username) # {}
          THEN /\ out' = Response("POST /api/auth/register", 400,
                                  "Username already exists", TRUE, {})
               /\ UNCHANGED <<users, sessionUserId,
                   categories, brands>>
          ELSE IF getUserByEmail(body.email) # {}
          THEN /\ out' = Response("POST /api/auth/register", 400,
                                  "Email already exists", TRUE, {})
               /\ UNCHANGED <<users, sessionUserId,
                   categories, brands>>
          ELSE /\ Cardinality(GeneratedUsers) < MaxUsers
               /\ users' = users \cup {newUser}
               /\ sessionUserId' = newUser.id
               /\ out' = Response("POST /api/auth/register", 200,
                                  "Registration successful", TRUE,
                                  {WithoutPassword(newUser)})
       /\ UNCHANGED <<adminPermissions, products, prescriptions, cartItems, orders,
                      orderItems, calls, added,
                   categories, brands>>

\* POST /api/auth/logout
Logout ==
    /\ sessionUserId' = NULL
    /\ out' = Response("POST /api/auth/logout", 200, "Logout successful", TRUE, {})
    /\ UNCHANGED <<users, adminPermissions, products, prescriptions, cartItems,
                   orders, orderItems, calls, added,
                   categories, brands>>

-----------------------------------------------------------------------------
(* Admin operations of the data-access layer *)

PermissionNames == {"edit_products", "add_products", "view_prescriptions", "manage_users"}

PermissionRows(userId, permission) ==
    {i \in 1..Len(adminPermissions) :
        /\ adminPermissions[i].userId = userId
        /\ adminPermissions[i].permission = permission}

\* Faulty variant: the admin flag is derived from the stored role, which a
\* revocation leaves in place, instead of being read from the isAdmin column.
getUserWithPermissions_flagFromRole(id) ==
    {[f \in DOMAIN u \cup {"adminPermissions"} |->
        IF f = "adminPermissions"
        THEN {adminPermissions[i] : i \in {j \in 1..Len(adminPermissions) :
                                              adminPermissions[j].userId = u.id}}
        ELSE IF f = "isAdmin" THEN u.isAdmin \/ u.adminRole = "super_admin"
        ELSE u[f]] : u \in getUserById(id)}

\* getUserWithPermissions(id): the user with its admin_permissions rows attached.
getUserWithPermissions(id) ==
    {[f \in DOMAIN u \cup {"adminPermissions"} |->
        IF f = "adminPermissions"
        THEN {adminPermissions[i] : i \in {j \in 1..Len(adminPermissions) :
                                              adminPermissions[j].userId = u.id}}
        ELSE u[f]] : u \in getUserById(id)}

\* hasAdminPermission: findFirst on (userId, permission), then !!record.
hasAdminPermission(userId, permission) ==
    LET Matches(row) == row.userId = userId /\ row.permission = permission
        permission_record == SelectSeq(adminPermissions, Matches)
    IN permission_record # <<>>

\* Faulty variant: an omitted role is written as NULL.
setUserAdmin_clears(id, isAdmin, role) ==
    {IF u.id = id
     THEN ApplySet(u, ("isAdmin" :> isAdmin)
                      @@ ("adminRole" :> IF role = Undefined THEN NULL ELSE role))
     ELSE u : u \in users}

\* setUserAdmin(id, isAdmin, role): the users table after the UPDATE.  The
\* query builder leaves a column whose value is undefined out of SET.
setUserAdmin(id, isAdmin, role) ==
    {IF u.id = id
     THEN ApplySet(u, ("isAdmin" :> isAdmin) @@ Given("adminRole", role))
     ELSE u : u \in users}

\* addAdminPermission's INSERT is accepted: user_id references users.id.
AdminPermissionAccepted(userId) == getUserById(userId) # {}

\* Faulty variant: the delete stops at the first matching row.
removeAdminPermission_firstOnly(userId, permission) ==
    LET hits == PermissionRows(userId, permission)
        first == CHOOSE i \in hits : \A j \in hits : i <= j
    IN IF hits = {} THEN adminPermissions
       ELSE SubSeq(adminPermissions, 1, first - 1)
            \o SubSeq(adminPermissions, first + 1, Len(adminPermissions))

\* removeAdminPermission: the table after DELETE ... WHERE user_id AND permission.
removeAdminPermission(userId, permission) ==
    LET Kept(row) == ~(row.userId = userId /\ row.permission = permission)
    IN SelectSeq(adminPermissions, Kept)

TargetIds == ExternalSubs \cup {Id("u", 1)}

\* storage.addAdminPermission(userId, permission), called directly.
AddAdminPermission(userId, permission) ==
    /\ IF AdminPermissionAccepted(userId)
       THEN /\ Len(adminPermissions) < MaxPermRows
            /\ adminPermissions' =
                   Append(adminPermissions, [userId |-> userId, permission |-> permission])
            /\ out' = [op |-> "addAdminPermission", threw |-> FALSE,
                       userId |-> userId, permission |-> permission, rowCount |-> 1]
       ELSE /\ UNCHANGED adminPermissions
            /\ out' = [op |-> "addAdminPermission", threw |-> TRUE,
                       userId |-> userId, permission |-> permission, rowCount |-> 0]
    /\ UNCHANGED <<users, products, prescriptions, cartItems, orders, orderItems,
                   sessionUserId, calls, added,
                   categories, brands>>

\* storage.removeAdminPermission(userId, permission), called directly.
RemoveAdminPermission(userId, permission) ==
    /\ adminPermissions' = removeAdminPermission(userId, permission)
    /\ out' = [op |-> "removeAdminPermission", threw |-> FALSE,
               userId |-> userId, permission |-> permission,
               rowCount |-> Cardinality(PermissionRows(userId, permission))]
    /\ UNCHANGED <<users, products, prescriptions, cartItems, orders, orderItems,
                   sessionUserId, calls, added,
                   categories, brands>>

\* storage.setUserAdmin(id, isAdmin, role), called directly.
SetUserAdmin(id, isAdmin, role) ==
    /\ users' = setUserAdmin(id, isAdmin, role)
    /\ out' = [op |-> "setUserAdmin", threw |-> FALSE, id |-> id,
               isAdmin |-> isAdmin, role |-> role]
    /\ UNCHANGED <<adminPermissions, products, prescriptions, cartItems, orders,
                   orderItems, sessionUserId, calls, added,
                   categories, brands>>

-----------------------------------------------------------------------------
(* Catalog and prescription operations used by the admin routes *)

\* The products table after updateProduct(id, updates).
updateProduct(id, updates) ==
    {IF p.id = id THEN ApplySet(p, updates) ELSE p : p \in products}

\* The value an insert stores in a column: the supplied one, else the default.
Supplied(values, column, default) ==
    IF column \in DOMAIN values THEN values[column] ELSE default

\* defaultNow() of an insert into a products table: later than every stored row.
ProductClockOf(table) ==
    IF table = {} THEN 1
    ELSE 1 + (CHOOSE t \in {p.createdAt : p \in table} :
                 \A p \in table : p.createdAt <= t)

ProductClock == ProductClockOf(products)

\* The row createProduct inserts.
createProductRow(product) ==
    [id |-> FreshId("p", {p.id : p \in products}),
     slug |-> product.slug,
     name |-> product.name,
     price |-> product.price,
     categoryId |-> Supplied(product, "categoryId", NULL),
     brandId |-> Supplied(product, "brandId", NULL),
     stockQuantity |-> Supplied(product, "stockQuantity", 0),
     isActive |-> Supplied(product, "isActive", TRUE),
     imageUrl |-> NULL,
     createdAt |-> ProductClock]

\* Faulty variant: categories.slug without its unique constraint.
CategoryAccepted_noConstraint(slug, table) == TRUE

\* A categories table accepts a row with this slug: slug is unique.
CategoryAccepted(slug, table) == \A c \in table : c.slug # slug

\* products accepts the row: slug is unique, category and brand resolve.
ProductAccepted(row) ==
    /\ \A p \in products : p.slug # row.slug
    /\ row.categoryId # NULL => \E c \in categories : c.id = row.categoryId
    /\ row.brandId # NULL => \E b \in brands : b.id = row.brandId

\* Faulty variant: products are deleted whatever references them.
ProductDeletable_unchecked(id) == TRUE

\* DELETE FROM products WHERE id is accepted: no cart_items or order_items row
\* references the product (the foreign keys carry no ON DELETE action).
ProductDeletable(id) ==
    /\ \A i \in 1..Len(cartItems) : cartItems[i].productId # id
    /\ \A i \in 1..Len(orderItems) : orderItems[i].productId # id

\* The prescriptions table after updatePrescriptionStatus.
updatePrescriptionStatus(id, status, reviewNotes, reviewedBy) ==
    {IF p.id = id
     THEN ApplySet(p, ("status" :> status) @@ Given("reviewNotes", reviewNotes)
                       @@ Given("reviewedBy", reviewedBy))
     ELSE p : p \in prescriptions}

\* getPrescriptions(): every prescription with its user and reviewer attached;
\* rows whose user does not resolve are filtered out.
getPrescriptions ==
    {[prescription |-> p, user |-> u, reviewer |-> getUserById(p.reviewedBy)]
        : p \in prescriptions, u \in users} \cap
    {[prescription |-> p, user |-> u, reviewer |-> getUserById(p.reviewedBy)]
        : p \in {q \in prescriptions : getUserById(q.userId) # {}},
          u \in users}

\* ObjectStorageService.setProductImagePolicy(imageURL): the object path stored.
setProductImagePolicy(imageURL) == "/objects/" \o imageURL

-----------------------------------------------------------------------------
(* Middleware of the admin routes *)

Continue == [status |-> 200, error |-> ""]   \* next()

\* isAuthenticated (replitAuth): a request with an established identity carries
\* it as req.user.claims.sub; one without is answered 401.
isAuthenticated(req) ==
    IF req.sub = NULL THEN [status |-> 401, error |-> "Unauthorized"] ELSE Continue

\* Faulty variant: the admin flag is not looked at.
isAdmin_flagIgnored(req) ==
    IF req.sub = NULL
    THEN [status |-> 401, error |-> "Not authenticated"]
    ELSE IF getUserWithPermissions(req.sub) = {}
    THEN [status |-> 403, error |-> "Admin access required"]
    ELSE Continue

\* isAdmin: 401 without req.user, 403 unless the user row has isAdmin.
isAdmin(req) ==
    IF req.sub = NULL
    THEN [status |-> 401, error |-> "Not authenticated"]
    ELSE IF \A user \in getUserWithPermissions(req.sub) : ~user.isAdmin
    THEN [status |-> 403, error |-> "Admin access required"]
    ELSE Continue

\* req.adminUser: the user isAdmin attaches to the request when it calls next().
AdminUserOf(req) ==
    IF isAdmin(req) = Continue THEN getUserWithPermissions(req.sub) ELSE {}

\* Faulty variant: a super_admin role label stands in for the permission row.
checkAdminPermission_roleAdmits(permission, req) ==
    IF AdminUserOf(req) = {}
    THEN [status |-> 403, error |-> "Admin access required"]
    ELSE IF \A adminUser \in AdminUserOf(req) :
                /\ ~hasAdminPermission(adminUser.id, permission)
                /\ adminUser.adminRole # "super_admin"
    THEN [status |-> 403, error |-> "Permission '" \o permission \o "' required"]
    ELSE Continue

\* checkAdminPermission(permission): 403 without req.adminUser, 403 unless
\* hasAdminPermission(req.adminUser.id, permission).
checkAdminPermission(permission, req) ==
    IF AdminUserOf(req) = {}
    THEN [status |-> 403, error |-> "Admin access required"]
    ELSE IF \A adminUser \in AdminUserOf(req) :
                ~hasAdminPermission(adminUser.id, permission)
    THEN [status |-> 403, error |-> "Permission '" \o permission \o "' required"]
    ELSE Continue

\* app.<method>(path, isAuthenticated, isAdmin, checkAdminPermission(permission), handler):
\* the first middleware that answers ends the request.
AdminChain(permission, req) ==
    IF isAuthenticated(req) # Continue THEN isAuthenticated(req)
    ELSE IF isAdmin(req) # Continue THEN isAdmin(req)
    ELSE checkAdminPermission(permission, req)

\* A middleware answered: the handler is not entered and nothing is written.
Denied(route, denial) ==
    /\ out' = Response(route, denial.status, denial.error, FALSE, {})
    /\ UNCHANGED <<users, adminPermissions, products, prescriptions>>

-----------------------------------------------------------------------------
(* Admin routes *)

\* POST /api/admin/objects/upload
PostAdminObjectsUpload(req) ==
    LET route == "POST /api/admin/objects/upload"
        denial == AdminChain("edit_products", req)
    IN /\ IF denial # Continue THEN Denied(route, denial)
          ELSE /\ out' = Response(route, 200, "", TRUE, {})
               /\ UNCHANGED <<users, adminPermissions, products, prescriptions>>
       /\ UNCHANGED <<cartItems, orders, orderItems, sessionUserId, calls, added,
                   categories, brands>>

\* PUT /api/admin/product-images
PutAdminProductImages(req) ==
    LET route == "PUT /api/admin/product-images"
        denial == AdminChain("edit_products", req)
    IN /\ IF denial # Continue THEN Denied(route, denial)
          ELSE IF req.body.imageURL = Missing \/ req.body.productId = Missing
          THEN /\ out' = Response(route, 400, "imageURL and productId are required",
                                  TRUE, {})
               /\ UNCHANGED <<users, adminPermissions, products, prescriptions>>
          ELSE /\ products' = updateProduct(req.body.productId,
                       [imageUrl |-> setProductImagePolicy(req.body.imageURL)])
               /\ out' = Response(route, 200, "", TRUE, {})
               /\ UNCHANGED <<users, adminPermissions, prescriptions>>
       /\ UNCHANGED <<cartItems, orders, orderItems, sessionUserId, calls, added,
                   categories, brands>>

\* GET /api/admin/products
GetAdminProducts(req) ==
    LET route == "GET /api/admin/products"
        denial == AdminChain("edit_products", req)
    IN /\ IF denial # Continue THEN Denied(route, denial)
          ELSE /\ out' = Response(route, 200, "", TRUE, {})
               /\ UNCHANGED <<users, adminPermissions, products, prescriptions>>
       /\ UNCHANGED <<cartItems, orders, orderItems, sessionUserId, calls, added,
                   categories, brands>>

\* PUT /api/admin/products/:id
PutAdminProduct(req) ==
    LET route == "PUT /api/admin/products/:id"
        denial == AdminChain("edit_products", req)
    IN /\ IF denial # Continue THEN Denied(route, denial)
          ELSE /\ products' = updateProduct(req.id, req.body)
               /\ out' = Response(route, 200, "", TRUE, {})
               /\ UNCHANGED <<users, adminPermissions, prescriptions>>
       /\ UNCHANGED <<cartItems, orders, orderItems, sessionUserId, calls, added,
                   categories, brands>>

\* POST /api/admin/products
PostAdminProduct(req) ==
    LET route == "POST /api/admin/products"
        denial == AdminChain("add_products", req)
        row == createProductRow(req.body)
    IN /\ IF denial # Continue THEN Denied(route, denial)
          ELSE IF req.body.slug = Missing \/ ~ProductAccepted(row)
          THEN /\ out' = Response(route, 500, "Failed to create product", TRUE, {})
               /\ UNCHANGED <<users, adminPermissions, products, prescriptions>>
          ELSE /\ products' = products \cup {row}
               /\ out' = Response(route, 200, "", TRUE, {})
               /\ UNCHANGED <<users, adminPermissions, prescriptions>>
       /\ UNCHANGED <<cartItems, orders, orderItems, sessionUserId, calls, added,
                   categories, brands>>

\* DELETE /api/admin/products/:id
DeleteAdminProduct(req) ==
    LET route == "DELETE /api/admin/products/:id"
        denial == AdminChain("edit_products", req)
    IN /\ IF denial # Continue THEN Denied(route, denial)
          ELSE IF ~ProductDeletable(req.id)
          THEN /\ out' = Response(route, 500, "Failed to delete product", TRUE, {})
               /\ UNCHANGED <<users, adminPermissions, products, prescriptions>>
          ELSE /\ products' = {p \in products : p.id # req.id}
               /\ out' = Response(route, 200, "", TRUE, {})
               /\ UNCHANGED <<users, adminPermissions, prescriptions>>
       /\ UNCHANGED <<cartItems, orders, orderItems, sessionUserId, calls, added,
                   categories, brands>>

\* GET /api/admin/prescriptions
GetAdminPrescriptions(req) ==
    LET route == "GET /api/admin/prescriptions"
        denial == AdminChain("view_prescriptions", req)
    IN /\ IF denial # Continue THEN Denied(route, denial)
          ELSE /\ out' = Response(route, 200, "", TRUE,
                              {r.user : r \in getPrescriptions}
                              \cup UNION {r.reviewer : r \in getPrescriptions})
               /\ UNCHANGED <<users, adminPermissions, products, prescriptions>>
       /\ UNCHANGED <<cartItems, orders, orderItems, sessionUserId, calls, added,
                   categories, brands>>

\* PUT /api/admin/prescriptions/:id/status
PutAdminPrescriptionStatus(req) ==
    LET route == "PUT /api/admin/prescriptions/:id/status"
        denial == AdminChain("view_prescriptions", req)
    IN /\ IF denial # Continue THEN Denied(route, denial)
          ELSE IF req.body.status = Missing
          THEN /\ out' = Response(route, 400, "Status is required", TRUE, {})
               /\ UNCHANGED <<users, adminPermissions, products, prescriptions>>
          ELSE /\ prescriptions' = updatePrescriptionStatus(
                       req.id, req.body.status, req.body.reviewNotes, req.sub)
               /\ out' = Response(route, 200, "", TRUE, {})
               /\ UNCHANGED <<users, adminPermissions, products>>
       /\ UNCHANGED <<cartItems, orders, orderItems, sessionUserId, calls, added,
                   categories, brands>>

\* POST /api/admin/users/:id/admin
PostAdminUserAdmin(req) ==
    LET route == "POST /api/admin/users/:id/admin"
        denial == AdminChain("manage_users", req)
        after == setUserAdmin(req.id, req.body.isAdmin, req.body.role)
    IN /\ IF denial # Continue THEN Denied(route, denial)
          ELSE /\ users' = after
               /\ out' = Response(route, 200, "", TRUE, {u \in after : u.id = req.id})
               /\ UNCHANGED <<adminPermissions, products, prescriptions>>
       /\ UNCHANGED <<cartItems, orders, orderItems, sessionUserId, calls, added,
                   categories, brands>>

\* POST /api/admin/users/:id/permissions
PostAdminUserPermissions(req) ==
    LET route == "POST /api/admin/users/:id/permissions"
        denial == AdminChain("manage_users", req)
    IN /\ IF denial # Continue THEN Denied(route, denial)
          ELSE IF req.body = Missing
          THEN /\ out' = Response(route, 400, "Permission is required", TRUE, {})
               /\ UNCHANGED <<users, adminPermissions, products, prescriptions>>
          ELSE IF ~AdminPermissionAccepted(req.id)
          THEN /\ out' = Response(route, 500, "Failed to add permission", TRUE, {})
               /\ UNCHANGED <<users, adminPermissions, products, prescriptions>>
          ELSE /\ Len(adminPermissions) < MaxGrants
               /\ adminPermissions' =
                      Append(adminPermissions, [userId |-> req.id, permission |-> req.body])
               /\ out' = Response(route, 200, "", TRUE, {})
               /\ UNCHANGED <<users, products, prescriptions>>
       /\ UNCHANGED <<cartItems, orders, orderItems, sessionUserId, calls, added,
                   categories, brands>>

\* GET /api/admin/me
GetAdminMe(req) ==
    LET route == "GET /api/admin/me"
        denial == isAuthenticated(req)
        user == getUserWithPermissions(req.sub)
    IN /\ IF denial # Continue THEN Denied(route, denial)
          ELSE IF \A u \in user : ~u.isAdmin
          THEN /\ out' = Response(route, 403, "Not an admin", TRUE, {})
               /\ UNCHANGED <<users, adminPermissions, products, prescriptions>>
          ELSE /\ out' = Response(route, 200, "", TRUE, user)
               /\ UNCHANGED <<users, adminPermissions, products, prescriptions>>
       /\ UNCHANGED <<cartItems, orders, orderItems, sessionUserId, calls, added,
                   categories, brands>>

\* The routes registered under /api/admin.
AdminRouteNames ==
    {"POST /api/admin/objects/upload", "PUT /api/admin/product-images",
     "GET /api/admin/products", "PUT /api/admin/products/:id",
     "POST /api/admin/products", "DELETE /api/admin/products/:id",
     "GET /api/admin/prescriptions", "PUT /api/admin/prescriptions/:id/status",
     "POST /api/admin/users/:id/admin", "POST /api/admin/users/:id/permissions",
     "GET /api/admin/me"}

\* The requests sent to a route: the caller's identity, the :id parameter, the
\* body; one request per route comes without an identity.
AdminRequests(route) ==
    LET ids == CASE route \in {"PUT /api/admin/products/:id",
                               "DELETE /api/admin/products/:id"} -> {Id("p", 1)}
                 [] route = "PUT /api/admin/prescriptions/:id/status" -> {Id("rx", 1)}
                 [] route \in {"POST /api/admin/users/:id/admin",
                               "POST /api/admin/users/:id/permissions"} -> TargetIds
                 [] OTHER -> {Missing}
        bodies == CASE route = "PUT /api/admin/product-images"
                         -> [imageURL : {"img.png"}, productId : {Id("p", 1), Missing}]
                    [] route = "PUT /api/admin/products/:id" -> {[isActive |-> FALSE]}
                    [] route = "POST /api/admin/products"
                         -> [slug : {"vitamin-d3", Missing}, name : {"Vitamin D3"},
                             price : {"9.99"}, isActive : {TRUE}]
                    [] route = "PUT /api/admin/prescriptions/:id/status"
                         -> [status : {"verified", Missing}, reviewNotes : {Undefined}]
                    [] route = "POST /api/admin/users/:id/admin"
                         -> {[isAdmin |-> TRUE, role |-> "super_admin"],
                             [isAdmin |-> FALSE, role |-> NULL]}
                    [] route = "POST /api/admin/users/:id/permissions"
                         -> {"edit_products", Missing}
                    [] OTHER -> {Missing}
    IN [sub : ExternalSubs, id : ids, body : bodies]
       \cup {[sub |-> NULL, id |-> CHOOSE i \in ids : TRUE,
              body |-> CHOOSE b \in bodies : TRUE]}

\* Express dispatches the request to the handler registered for the route.
AdminRoute(route, req) ==
    \/ route = "POST /api/admin/objects/upload" /\ PostAdminObjectsUpload(req)
    \/ route = "PUT /api/admin/product-images" /\ PutAdminProductImages(req)
    \/ route = "GET /api/admin/products" /\ GetAdminProducts(req)
    \/ route = "PUT /api/admin/products/:id" /\ PutAdminProduct(req)
    \/ route = "POST /api/admin/products" /\ PostAdminProduct(req)
    \/ route = "DELETE /api/admin/products/:id" /\ DeleteAdminProduct(req)
    \/ route = "GET /api/admin/prescriptions" /\ GetAdminPrescriptions(req)
    \/ route = "PUT /api/admin/prescriptions/:id/status" /\ PutAdminPrescriptionStatus(req)
    \/ route = "POST /api/admin/users/:id/admin" /\ PostAdminUserAdmin(req)
    \/ route = "POST /api/admin/users/:id/permissions" /\ PostAdminUserPermissions(req)
    \/ route = "GET /api/admin/me" /\ GetAdminMe(req)

-----------------------------------------------------------------------------
(* Prescription submission *)

\* Faulty variant: a userId in the body takes precedence over the caller.
submittedData_bodyWins(req) ==
    [req.body EXCEPT !.userId = IF @ = Undefined THEN req.sub ELSE @]

\* { ...req.body, userId: req.user.claims.sub }: the body with its userId
\* replaced by the caller's identity.
submittedData(req) == [req.body EXCEPT !.userId = req.sub]

\* insertPrescriptionSchema.parse accepts the data: the required texts are
\* present.
PrescriptionParsed(data) == data.patientName # Missing

\* prescriptions accepts the row: user_id references users.id.
PrescriptionAccepted(row) == row.userId # NULL => getUserById(row.userId) # {}

\* The row createPrescription inserts.
createPrescriptionRow(prescription) ==
    [id |-> FreshId("rx", {p.id : p \in prescriptions}),
     userId |-> prescription.userId,
     patientName |-> prescription.patientName,
     status |-> "pending",
     reviewNotes |-> NULL,
     reviewedBy |-> NULL]

\* POST /api/prescriptions/submit.  The response carries the prescription
\* created; the outcome also keeps the request it answers.
PostPrescriptionsSubmit(req) ==
    LET route == "POST /api/prescriptions/submit"
        denial == isAuthenticated(req)
        data == submittedData(req)
        row == createPrescriptionRow(data)
        Answer(status, message, handler, created) ==
            [op |-> route, status |-> status, message |-> message,
             handler |-> handler, users |-> {}, prescription |-> created,
             req |-> req]
    IN /\ IF denial # Continue
          THEN /\ prescriptions' = prescriptions
               /\ out' = Answer(denial.status, denial.error, FALSE, {})
          ELSE IF ~PrescriptionParsed(data) \/ ~PrescriptionAccepted(row)
          THEN /\ prescriptions' = prescriptions
               /\ out' = Answer(500, "Failed to submit prescription", TRUE, {})
          ELSE /\ prescriptions' = prescriptions \cup {row}
               /\ out' = Answer(200, "", TRUE, {row})
       /\ UNCHANGED <<users, adminPermissions, products, cartItems, orders,
                      orderItems, categories, brands, sessionUserId, calls, added>>

\* Submissions: no identity, a stored caller, a caller without a user row;
\* bodies without a userId, with the caller's, with another user's.
SubmitRequests ==
    [sub : {NULL} \cup ExternalSubs \cup {"x9"},
     body : [userId : {Undefined, "x9"} \cup TargetIds,
             patientName : {"Ann", Missing}]]

\* prescriptions accepts the update: reviewed_by references users.id.
ReviewAccepted(id, reviewedBy) ==
    \/ reviewedBy \in {Undefined, NULL}
    \/ getUserById(reviewedBy) # {}
    \/ \A p \in prescriptions : p.id # id

\* storage.updatePrescriptionStatus(id, status, reviewNotes, reviewedBy),
\* called directly.
UpdatePrescriptionStatus(id, status, reviewNotes, reviewedBy) ==
    /\ IF ReviewAccepted(id, reviewedBy)
       THEN /\ prescriptions' =
                   updatePrescriptionStatus(id, status, reviewNotes, reviewedBy)
            /\ out' = [op |-> "updatePrescriptionStatus", threw |-> FALSE,
                       id |-> id, status |-> status, reviewNotes |-> reviewNotes,
                       reviewedBy |-> reviewedBy]
       ELSE /\ prescriptions' = prescriptions
            /\ out' = [op |-> "updatePrescriptionStatus", threw |-> TRUE,
                       id |-> id, status |-> status, reviewNotes |-> reviewNotes,
                       reviewedBy |-> reviewedBy]
    /\ UNCHANGED <<users, adminPermissions, products, cartItems, orders,
                   orderItems, categories, brands, sessionUserId, calls, added>>

\* The reviews given: the prescription, the verdict, the notes (Undefined
\* when the review gives none) and the reviewer.
Reviews ==
    [id : {Id("rx", 1), Id("rx", 9)}, status : {"verified", "rejected"},
     reviewNotes : {Undefined, "dose unclear", "checked"},
     reviewedBy : TargetIds \cup {"x9"}]

-----------------------------------------------------------------------------
(* Catalog *)

\* storage.createCategory(category): one insert; a taken slug makes it throw.
CreateCategory(category) ==
    LET row == [id |-> FreshId("cat", {c.id : c \in categories}),
                name |-> category.name, slug |-> category.slug]
    IN /\ IF CategoryAccepted(row.slug, categories)
          THEN /\ categories' = categories \cup {row}
               /\ out' = [op |-> "createCategory", threw |-> FALSE, id |-> row.id]
          ELSE /\ categories' = categories
               /\ out' = [op |-> "createCategory", threw |-> TRUE, id |-> NULL]
       /\ UNCHANGED <<users, adminPermissions, products, prescriptions, cartItems,
                      orders, orderItems, brands, sessionUserId, calls, added>>

\* storage.createBrand(brand): one insert; brands has no unique column.
CreateBrand(brand) ==
    LET row == [id |-> FreshId("b", {b.id : b \in brands}), name |-> brand.name]
    IN /\ brands' = brands \cup {row}
       /\ out' = [op |-> "createBrand", threw |-> FALSE, id |-> row.id]
       /\ UNCHANGED <<users, adminPermissions, products, prescriptions, cartItems,
                      orders, orderItems, categories, sessionUserId, calls, added>>

\* Rows ordered by createdAt, latest first.
RECURSIVE LatestFirst(_)
LatestFirst(rows) ==
    IF rows = {} THEN <<>>
    ELSE LET latest == CHOOSE r \in rows : \A q \in rows : q.createdAt <= r.createdAt
         IN <<latest>> \o LatestFirst(rows \ {latest})

\* Faulty variant: the isActive condition is missing from the select.
getProducts_all(filters) ==
    LET rows == LatestFirst(products)
    IN [k \in 1..Len(rows) |->
           [product |-> rows[k],
            category |-> {c \in categories : c.id = rows[k].categoryId},
            brand |-> {b \in brands : b.id = rows[k].brandId}]]

\* getProducts(filters): the active products, latest first, each with its
\* category and brand (left joins); the select does not read filters.
getProducts(filters) ==
    LET rows == LatestFirst({p \in products : p.isActive = TRUE})
    IN [k \in 1..Len(rows) |->
           [product |-> rows[k],
            category |-> {c \in categories : c.id = rows[k].categoryId},
            brand |-> {b \in brands : b.id = rows[k].brandId}]]

\* getProducts(filters), called by GET /api/products with the filters of the
\* query string.
GetProducts(filters) ==
    /\ out' = [op |-> "getProducts", threw |-> FALSE, filters |-> filters,
               result |-> getProducts(filters)]
    /\ UNCHANGED <<users, adminPermissions, products, prescriptions, cartItems,
                   orders, orderItems, categories, brands, sessionUserId, calls,
                   added>>

\* storage.updateProduct(id, updates).
UpdateProduct(id, updates) ==
    /\ products' = updateProduct(id, updates)
    /\ out' = [op |-> "updateProduct", threw |-> FALSE, id |-> id]
    /\ UNCHANGED <<users, adminPermissions, prescriptions, cartItems, orders,
                   orderItems, categories, brands, sessionUserId, calls, added>>

\* storage.deleteProduct(id): the delete fails while a cart or order item
\* references the product.
DeleteProduct(id) ==
    /\ IF ProductDeletable(id)
       THEN /\ products' = {p \in products : p.id # id}
            /\ out' = [op |-> "deleteProduct", threw |-> FALSE, id |-> id]
       ELSE /\ products' = products
            /\ out' = [op |-> "deleteProduct", threw |-> TRUE, id |-> id]
    /\ UNCHANGED <<users, adminPermissions, prescriptions, cartItems, orders,
                   orderItems, categories, brands, sessionUserId, calls, added>>

\* The products the catalog operations are given.
CatalogProducts ==
    {[slug |-> "vitamin-d3", name |-> "Vitamin D3", price |-> "9.99",
      categoryId |-> Id("cat", 1), brandId |-> Id("b", 1), stockQuantity |-> 5,
      isActive |-> a] : a \in BOOLEAN}
    \cup {[slug |-> "zinc", name |-> "Zinc", price |-> "19.99",
           stockQuantity |-> 0, isActive |-> a] : a \in BOOLEAN}

\* The filters GET /api/products may pass.
ProductFilters ==
    {[limit |-> 50, offset |-> 0],
     [limit |-> 1, offset |-> 0],
     [limit |-> 50, offset |-> 1],
     [categoryId |-> Id("cat", 1), limit |-> 50, offset |-> 0],
     [brandId |-> Id("b", 1), limit |-> 50, offset |-> 0],
     [search |-> "vit", limit |-> 50, offset |-> 0],
     [minPrice |-> 10, limit |-> 50, offset |-> 0],
     [maxPrice |-> 10, limit |-> 50, offset |-> 0],
     [inStock |-> TRUE, limit |-> 50, offset |-> 0]}

-----------------------------------------------------------------------------
(* Seeding utility *)

\* categoriesData: the fixed category definitions (description left out).
categoriesData ==
    <<[name |-> "Vitamins & Multivitamins", slug |-> "vitamins-multivitamins"],
      [name |-> "Probiotics & Digestive Health", slug |-> "probiotics-digestive-health"],
      [name |-> "Dietary Supplements", slug |-> "dietary-supplements"],
      [name |-> "Joint, Bone & Muscle Support", slug |-> "joint-bone-muscle-support"],
      [name |-> "Hair, Skin & Nails", slug |-> "hair-skin-nails"],
      [name |-> "Pain Relief", slug |-> "pain-relief"],
      [name |-> "Cold, Cough & Allergy", slug |-> "cold-cough-allergy"],
      [name |-> "Urinary Health & Cranberry", slug |-> "urinary-health-cranberry"],
      [name |-> "Skin Care & Acne", slug |-> "skin-care-acne"],
      [name |-> "Women's Health & Feminine Care", slug |-> "womens-health-feminine-care"],
      [name |-> "First Aid & Wound Care", slug |-> "first-aid-wound-care"],
      [name |-> "Digestive & Antacid", slug |-> "digestive-antacid"],
      [name |-> "Heart Health & CoQ10", slug |-> "heart-health-coq10"],
      [name |-> "Oral Care", slug |-> "oral-care"],
      [name |-> "Minerals & Trace Elements", slug |-> "minerals-trace-elements"],
      [name |-> "Herbal & Natural Supplements", slug |-> "herbal-natural-supplements"],
      [name |-> "General Health", slug |-> "general-health"]>>

\* String.toLowerCase on one character.
toLowerCase(c) ==
    LET upper == <<"A", "B", "C", "D", "E", "F", "G", "H", "I", "J", "K", "L", "M",
                   "N", "O", "P", "Q", "R", "S", "T", "U", "V", "W", "X", "Y", "Z">>
        lower == <<"a", "b", "c", "d", "e", "f", "g", "h", "i", "j", "k", "l", "m",
                   "n", "o", "p", "q", "r", "s", "t", "u", "v", "w", "x", "y", "z">>
    IN IF \E i \in 1..26 : upper[i] = c
       THEN lower[CHOOSE i \in 1..26 : upper[i] = c]
       ELSE c

\* The characters /[a-z0-9]/ matches.
SlugChars ==
    {"a", "b", "c", "d", "e", "f", "g", "h", "i", "j", "k", "l", "m", "n", "o", "p",
     "q", "r", "s", "t", "u", "v", "w", "x", "y", "z",
     "0", "1", "2", "3", "4", "5", "6", "7", "8", "9"}

\* chars.toLowerCase().replace(/[^a-z0-9]/g, '-').replace(/-+/g, '-'), for a
\* text given as its sequence of characters; afterDash says that the character
\* before was turned into a dash.
RECURSIVE SlugFrom(_, _)
SlugFrom(chars, afterDash) ==
    IF chars = <<>> THEN ""
    ELSE LET c == toLowerCase(Head(chars))
         IN IF c \in SlugChars THEN c \o SlugFrom(Tail(chars), FALSE)
            ELSE IF afterDash THEN SlugFrom(Tail(chars), TRUE)
            ELSE "-" \o SlugFrom(Tail(chars), TRUE)

Slug(chars) == SlugFrom(chars, FALSE)

\* 'Generic', 'Unknown Product' and 'General Health', the fallbacks of an item
\* without brand, name or category.
Generic == <<"G", "e", "n", "e", "r", "i", "c">>
UnknownProduct == <<"U", "n", "k", "n", "o", "w", "n", " ", "P", "r", "o", "d", "u", "c", "t">>
GeneralHealth == "General Health"

\* item.Brand || 'Generic', item.ProductName || 'Unknown Product',
\* item.Category || 'General Health', item['Price(Ghc)'] || 0: an empty text
\* is falsy.
BrandOf(item) == IF item.Brand = <<>> THEN Generic ELSE item.Brand
ProductNameOf(item) == IF item.ProductName = <<>> THEN UnknownProduct ELSE item.ProductName
CategoryOf(item) == IF item.Category = Missing THEN GeneralHealth ELSE item.Category
PriceOf(item) == item.Price

\* The loop over categoriesData: createCategory for each definition in turn;
\* the first insert that meets a stored slug throws and ends the run.
RECURSIVE seedCategories(_, _)
seedCategories(defs, table) ==
    IF defs = <<>> THEN [table |-> table, threw |-> FALSE]
    ELSE IF ~CategoryAccepted(Head(defs).slug, table)
    THEN [table |-> table, threw |-> TRUE]
    ELSE seedCategories(Tail(defs),
             table \cup {[id |-> FreshId("cat", {c.id : c \in table}),
                          name |-> Head(defs).name, slug |-> Head(defs).slug]})

\* [...new Set(names)]: the distinct values in the order of first appearance.
RECURSIVE Distinct(_)
Distinct(values) ==
    IF values = <<>> THEN <<>>
    ELSE LET front == Distinct(SubSeq(values, 1, Len(values) - 1))
             last == values[Len(values)]
         IN IF \E i \in 1..Len(front) : front[i] = last THEN front
            ELSE Append(front, last)

uniqueBrands(catalog) == Distinct([i \in 1..Len(catalog) |-> BrandOf(catalog[i])])

\* The loop over uniqueBrands: createBrand for each name, the row kept in the
\* dictionary under the name's slug (a later name with the same slug replaces
\* the earlier entry).
RECURSIVE seedBrands(_, _, _)
seedBrands(names, table, dict) ==
    IF names = <<>> THEN [table |-> table, dict |-> dict]
    ELSE LET row == [id |-> FreshId("b", {b.id : b \in table}), name |-> Head(names)]
         IN seedBrands(Tail(names), table \cup {row},
                       (Slug(Head(names)) :> row) @@ dict)

\* The loop over catalogData from item i on: an item whose (name, brand, price)
\* key was processed is skipped; the others are inserted with the slug
\* <slug of the name>-<number of products created so far>, the category of
\* this run with the item's category name (else general-health) and the brand
\* the dictionary holds for the brand's slug (else generic).  created counts
\* the products of this run; a taken slug makes the insert throw.
RECURSIVE seedProducts(_, _, _, _, _, _, _, _)
seedProducts(catalog, i, processed, created, table, cats, dict, stock) ==
    IF i > Len(catalog) THEN [table |-> table, created |-> created, threw |-> FALSE]
    ELSE LET item == catalog[i]
             productKey == ProductNameOf(item) \o <<"-">> \o BrandOf(item)
                               \o <<"-", ToString(PriceOf(item))>>
             categoryObj ==
                 IF \E c \in cats : c.name = CategoryOf(item)
                 THEN CHOOSE c \in cats : c.name = CategoryOf(item)
                 ELSE CHOOSE c \in cats : c.slug = "general-health"
             brandSlug == Slug(BrandOf(item))
             brandObj == IF brandSlug \in DOMAIN dict THEN dict[brandSlug]
                         ELSE dict["generic"]
             row == [id |-> FreshId("p", {p.id : p \in table}),
                     slug |-> Slug(ProductNameOf(item)) \o "-" \o ToString(created),
                     name |-> ProductNameOf(item),
                     price |-> ToString(PriceOf(item)),
                     categoryId |-> categoryObj.id,
                     brandId |-> brandObj.id,
                     stockQuantity |-> stock[i],
                     isActive |-> TRUE,
                     imageUrl |-> Missing,
                     createdAt |-> ProductClockOf(table)]
         IN IF productKey \in processed
            THEN seedProducts(catalog, i + 1, processed, created, table, cats, dict,
                              stock)
            ELSE IF \E p \in table : p.slug = row.slug
            THEN [table |-> table, created |-> created, threw |-> TRUE]
            ELSE seedProducts(catalog, i + 1, processed \cup {productKey},
                              created + 1, table \cup {row}, cats, dict, stock)

\* seedAuthenticCatalog(storage) for the catalog read from catalog_data.json;
\* stock[i] is the stock drawn at random for item i.  Every create call is a
\* statement of its own: a call that throws ends the run and leaves the rows
\* created before it.
SeedAuthenticCatalog(catalog, stock) ==
    LET cats == seedCategories(categoriesData, categories)
        brs == seedBrands(uniqueBrands(catalog), brands, <<>>)
        prods == seedProducts(catalog, 1, {}, 0, products,
                              cats.table \ categories, brs.dict, stock)
    IN /\ categories' = cats.table
       /\ IF cats.threw
          THEN /\ UNCHANGED <<brands, products>>
               /\ out' = [op |-> "seedAuthenticCatalog", threw |-> TRUE,
                          catalog |-> catalog,
                          categories |-> 0, brands |-> 0, products |-> 0]
          ELSE /\ brands' = brs.table
               /\ products' = prods.table
               /\ out' = [op |-> "seedAuthenticCatalog", threw |-> prods.threw,
                          catalog |-> catalog,
                          categories |-> Len(categoriesData),
                          brands |-> Cardinality(DOMAIN brs.dict),
                          products |-> prods.created]
       /\ UNCHANGED <<users, adminPermissions, prescriptions, cartItems, orders,
                      orderItems, sessionUserId, calls, added>>

\* Faulty variant: products are deleted first.
clearAllDataTable_productsFirst(k) ==
    <<"products", "order_items", "orders", "cart_items", "categories", "brands">>[k]

\* The table statement k of clearAllData deletes from.
clearAllDataTable(k) ==
    <<"order_items", "orders", "cart_items", "products", "categories", "brands">>[k]

\* Statement k of clearAllData is refused: a row of another table references a
\* row of the table it deletes from (the foreign keys carry no ON DELETE action).
ClearRefused(k) ==
    LET table == clearAllDataTable(k)
    IN CASE table = "orders" -> \E i \in 1..Len(orderItems), o \in 1..Len(orders) :
                                   orderItems[i].orderId = orders[o].id
         [] table = "products" -> \E p \in products : ~ProductDeletable(p.id)
         [] table = "categories" ->
               \E p \in products, c \in categories : p.categoryId = c.id
         [] table = "brands" -> \E p \in products, b \in brands : p.brandId = b.id
         [] OTHER -> FALSE

\* clearAllData(), one statement at a time: delete order_items, orders,
\* cart_items, products, categories, brands.  calls["clear"].step is the next
\* statement of the call in flight; a refused statement throws and ends it.
ClearAllDataStep ==
    LET k == IF "clear" \in DOMAIN calls THEN calls["clear"].step ELSE 1
        done(table) == clearAllDataTable(k) = table /\ ~ClearRefused(k)
        ends == ClearRefused(k) \/ k = 6
    IN /\ orderItems' = IF done("order_items") THEN <<>> ELSE orderItems
       /\ orders' = IF done("orders") THEN <<>> ELSE orders
       /\ cartItems' = IF done("cart_items") THEN <<>> ELSE cartItems
       /\ products' = IF done("products") THEN {} ELSE products
       /\ categories' = IF done("categories") THEN {} ELSE categories
       /\ brands' = IF done("brands") THEN {} ELSE brands
       /\ calls' = IF ends THEN [r \in DOMAIN calls \ {"clear"} |-> calls[r]]
                   ELSE ("clear" :> [step |-> k + 1]) @@ calls
       /\ out' = IF ends
                 THEN [op |-> "clearAllData", threw |-> ClearRefused(k), step |-> k]
                 ELSE out
       /\ UNCHANGED <<users, adminPermissions, prescriptions, sessionUserId, added>>

\* deleteAllProducts(): one delete statement, refused while a cart or order
\* item references a product.
DeleteAllProducts ==
    /\ IF \A p \in products : ProductDeletable(p.id)
       THEN /\ products' = {}
            /\ out' = [op |-> "deleteAllProducts", threw |-> FALSE]
       ELSE /\ products' = products
            /\ out' = [op |-> "deleteAllProducts", threw |-> TRUE]
    /\ UNCHANGED <<users, adminPermissions, prescriptions, cartItems, orders,
                   orderItems, categories, brands, sessionUserId, calls, added>>

\* Items of catalog_data.json: texts are sequences of characters, a missing
\* text is empty, the price is a number.
CatalogItems ==
    LET Zinc == <<"Z", "i", "n", "c">>
    IN {[ProductName |-> Zinc, Brand |-> <<"G", "N", "C">>,
         Category |-> "Pain Relief", Price |-> 5],
        [ProductName |-> Zinc, Brand |-> <<"g", "n", "c">>,
         Category |-> "Pain Relief", Price |-> 5],
        [ProductName |-> Zinc, Brand |-> <<"G", "N", "C">>,
         Category |-> "Unlisted", Price |-> 5],
        [ProductName |-> <<>>, Brand |-> <<>>, Category |-> Missing, Price |-> 0]}

\* The catalogs read from catalog_data.json.
Catalogs == UNION {[1..n -> CatalogItems] : n \in 0..MaxItems}

\* Math.floor(Math.random() * 150) + 50: the least and the largest draw.
StockDraws == {50, 199}

-----------------------------------------------------------------------------
(* Cart *)

\* storage.createProduct(product): one insert; a taken slug makes it throw.
CreateProduct(product) ==
    LET row == createProductRow(product)
    IN /\ IF ProductAccepted(row)
          THEN /\ products' = products \cup {row}
               /\ out' = [op |-> "createProduct", threw |-> FALSE, id |-> row.id]
          ELSE /\ products' = products
               /\ out' = [op |-> "createProduct", threw |-> TRUE, id |-> NULL]
       /\ UNCHANGED <<users, adminPermissions, prescriptions, cartItems, orders,
                      orderItems, sessionUserId, calls, added,
                   categories, brands>>

\* Positions of the cart_items rows of (userId, productId).
CartRows(userId, productId) ==
    {i \in 1..Len(cartItems) : /\ cartItems[i].userId = userId
                               /\ cartItems[i].productId = productId}

\* getCartItems(userId): the user's rows inner-joined with their products,
\* latest first.
getCartItems(userId) ==
    LET joined == SelectSeq(cartItems,
                      LAMBDA c : c.userId = userId
                                 /\ \E p \in products : p.id = c.productId)
        entry(c) == [id |-> c.id, userId |-> c.userId, productId |-> c.productId,
                     quantity |-> c.quantity,
                     product |-> CHOOSE p \in products : p.id = c.productId]
    IN [i \in 1..Len(joined) |-> entry(joined[Len(joined) + 1 - i])]

\* const [existingItem] = await db.select()...where(userId, productId): the
\* first row of a select without ORDER BY is any of the matching rows; without
\* a match existingItem is undefined (the empty set).
addToCartSelect(userId, productId) ==
    IF CartRows(userId, productId) = {}
    THEN {{}}
    ELSE {{cartItems[i]} : i \in CartRows(userId, productId)}

\* cart_items accepts a row of (userId, productId): both foreign keys resolve.
CartItemAccepted(userId, productId) ==
    /\ \E u \in users : u.id = userId
    /\ \E p \in products : p.id = productId

\* Faulty variant: the update stores the new quantity instead of adding it.
addToCartWrite_replaces(existingItem, userId, productId, quantity) ==
    IF existingItem # {}
    THEN [i \in 1..Len(cartItems) |->
             IF \E e \in existingItem : cartItems[i].id = e.id
             THEN ApplySet(cartItems[i], "quantity" :> quantity)
             ELSE cartItems[i]]
    ELSE Append(cartItems,
                [id |-> FreshId("c", {cartItems[i].id : i \in 1..Len(cartItems)}),
                 userId |-> userId, productId |-> productId, quantity |-> quantity])

\* cart_items after the write of addToCart: the row with existingItem's id gets
\* existingItem.quantity + quantity, or a new row is inserted.
addToCartWrite(existingItem, userId, productId, quantity) ==
    IF existingItem # {}
    THEN [i \in 1..Len(cartItems) |->
             IF \E e \in existingItem : cartItems[i].id = e.id
             THEN ApplySet(cartItems[i],
                      "quantity" :> ((CHOOSE e \in existingItem : TRUE).quantity
                                     + quantity))
             ELSE cartItems[i]]
    ELSE Append(cartItems,
                [id |-> FreshId("c", {cartItems[i].id : i \in 1..Len(cartItems)}),
                 userId |-> userId, productId |-> productId, quantity |-> quantity])

\* The result of an addToCart call.
AddToCartResult(existingItem, userId, productId, quantity) ==
    [op |-> "addToCart",
     threw |-> existingItem = {} /\ ~CartItemAccepted(userId, productId),
     userId |-> userId, productId |-> productId, quantity |-> quantity,
     inserted |-> existingItem = {} /\ CartItemAccepted(userId, productId)]

\* addToCart(userId, productId, quantity) running alone, select and write
\* with no other statement in between.
AddToCart(userId, productId, quantity) ==
    /\ \E existingItem \in addToCartSelect(userId, productId) :
          /\ \A e \in existingItem : e.quantity + quantity <= MaxQty
          /\ out' = AddToCartResult(existingItem, userId, productId, quantity)
          /\ cartItems' = IF out'.threw THEN cartItems
                          ELSE addToCartWrite(existingItem, userId, productId, quantity)
    /\ UNCHANGED <<users, adminPermissions, products, prescriptions, orders,
                   orderItems, sessionUserId, calls, added,
                   categories, brands>>

\* Faulty variant: the new quantity is added to the stored one.
updateCartItem_adds(userId, productId, quantity) ==
    [i \in 1..Len(cartItems) |->
        IF i \in CartRows(userId, productId)
        THEN ApplySet(cartItems[i], "quantity" :> (cartItems[i].quantity + quantity))
        ELSE cartItems[i]]

\* cart_items after updateCartItem: every row of (userId, productId) gets the
\* quantity.
updateCartItem(userId, productId, quantity) ==
    [i \in 1..Len(cartItems) |->
        IF i \in CartRows(userId, productId)
        THEN ApplySet(cartItems[i], "quantity" :> quantity)
        ELSE cartItems[i]]

\* updateCartItem(userId, productId, quantity); rowCount is the number of rows
\* the update returned (the method returns the first, or undefined).
UpdateCartItem(userId, productId, quantity) ==
    /\ cartItems' = updateCartItem(userId, productId, quantity)
    /\ out' = [op |-> "updateCartItem", threw |-> FALSE, userId |-> userId,
               productId |-> productId, quantity |-> quantity,
               rowCount |-> Cardinality(CartRows(userId, productId))]
    /\ UNCHANGED <<users, adminPermissions, products, prescriptions, orders,
                   orderItems, sessionUserId, calls, added,
                   categories, brands>>

\* Faulty variant: the delete matches the product of every user.
removeFromCart_anyUser(userId, productId) ==
    SelectSeq(cartItems, LAMBDA row : row.productId # productId)

\* removeFromCart(userId, productId): cart_items after the delete.
removeFromCart(userId, productId) ==
    SelectSeq(cartItems,
              LAMBDA row : ~(row.userId = userId /\ row.productId = productId))

\* clearCart(userId): cart_items after the delete.
clearCart(userId) == SelectSeq(cartItems, LAMBDA row : row.userId # userId)

\* removeFromCart(userId, productId), called directly; rowCount is the number
\* of rows the delete matched.
RemoveFromCart(userId, productId) ==
    /\ cartItems' = removeFromCart(userId, productId)
    /\ out' = [op |-> "removeFromCart", threw |-> FALSE, userId |-> userId,
               productId |-> productId,
               rowCount |-> Cardinality(CartRows(userId, productId))]
    /\ UNCHANGED <<users, adminPermissions, products, prescriptions, orders,
                   orderItems, categories, brands, sessionUserId, calls, added>>

\* clearCart(userId), called directly.
ClearCart(userId) ==
    /\ cartItems' = clearCart(userId)
    /\ out' = [op |-> "clearCart", threw |-> FALSE, userId |-> userId,
               productId |-> NULL,
               rowCount |-> Cardinality({i \in 1..Len(cartItems) :
                                           cartItems[i].userId = userId})]
    /\ UNCHANGED <<users, adminPermissions, products, prescriptions, orders,
                   orderItems, categories, brands, sessionUserId, calls, added>>

\* The requests that may call addToCart at the same time.
Requests == {"r1", "r2"}

\* Quantity that completed addToCart calls have added for (userId, productId).
Added(userId, productId) ==
    IF <<userId, productId>> \in DOMAIN added THEN added[<<userId, productId>>] ELSE 0

RECURSIVE SumQuantity(_)
SumQuantity(rows) ==
    IF rows = <<>> THEN 0 ELSE Head(rows).quantity + SumQuantity(Tail(rows))

\* Quantity that the calls in `rs` are about to add.
RECURSIVE InFlight(_)
InFlight(rs) ==
    IF rs = {} THEN 0
    ELSE LET r == CHOOSE r \in rs : TRUE
         IN calls[r].quantity + InFlight(rs \ {r})

\* Request r calls addToCart(userId, productId, quantity): its select runs.
AddToCartSelect(r, userId, productId, quantity) ==
    /\ r \notin DOMAIN calls
    /\ Added(userId, productId) + InFlight(DOMAIN calls) + quantity <= MaxQty
    /\ \E existingItem \in addToCartSelect(userId, productId) :
          calls' = (r :> [userId |-> userId, productId |-> productId,
                          quantity |-> quantity, existingItem |-> existingItem])
                   @@ calls
    /\ UNCHANGED <<users, adminPermissions, products, prescriptions, cartItems,
                   orders, orderItems, sessionUserId, added, out,
                   categories, brands>>

\* Request r's addToCart call goes on: its update or insert runs and it returns.
AddToCartWrite(r) ==
    /\ r \in DOMAIN calls
    /\ LET c == calls[r]
       IN /\ out' = AddToCartResult(c.existingItem, c.userId, c.productId, c.quantity)
          /\ cartItems' = IF out'.threw THEN cartItems
                          ELSE addToCartWrite(c.existingItem, c.userId, c.productId,
                                              c.quantity)
          /\ added' = IF out'.threw THEN added
                      ELSE (<<c.userId, c.productId>>
                               :> (Added(c.userId, c.productId) + c.quantity)) @@ added
    /\ calls' = [x \in DOMAIN calls \ {r} |-> calls[x]]
    /\ UNCHANGED <<users, adminPermissions, products, prescriptions, orders,
                   orderItems, sessionUserId,
                   categories, brands>>

-----------------------------------------------------------------------------
(* Orders *)

\* orders accepts the row: the user exists and the order number is unused.
OrderAccepted(order) ==
    /\ \E u \in users : u.id = order.userId
    /\ \A i \in 1..Len(orders) : orders[i].orderNumber # order.orderNumber

\* order_items accepts the rows of the one insert statement: values([]) throws
\* before any statement is sent, and every productId must resolve.
OrderItemsAccepted(items) ==
    /\ items # <<>>
    /\ \A i \in 1..Len(items) : \E p \in products : p.id = items[i].productId

\* The row insert(orders).values(order) adds.
createOrderRow(order) ==
    [id |-> FreshId("o", {orders[i].id : i \in 1..Len(orders)}),
     userId |-> order.userId,
     orderNumber |-> order.orderNumber,
     status |-> "pending",
     totalAmount |-> order.totalAmount,
     paymentStatus |-> "pending"]

\* items.map((item) => ({ ...item, orderId: newOrder.id })), as inserted.
orderItemsWithOrderId(items, orderId) ==
    [i \in 1..Len(items) |->
        [id |-> Id("oi", Len(orderItems) + i),
         orderId |-> orderId,
         productId |-> items[i].productId,
         quantity |-> items[i].quantity,
         price |-> items[i].price]]

\* order_items after insert(orderItems).values(orderItemsWithOrderId).
createOrderInsertItems(newOrder, items) ==
    orderItems \o orderItemsWithOrderId(items, newOrder.id)

\* createOrder(order, items): the order insert, then the items insert, each its
\* own statement with no transaction around them; a statement that fails
\* throws and leaves what the earlier statements wrote.
CreateOrder(order, items) ==
    LET newOrder == createOrderRow(order)
    IN /\ Len(orders) < MaxOrders
       /\ IF ~OrderAccepted(order)
          THEN /\ UNCHANGED <<orders, orderItems>>
               /\ out' = [op |-> "createOrder", threw |-> TRUE, orderId |-> NULL,
                          items |-> Len(items)]
          ELSE IF ~OrderItemsAccepted(items)
          THEN /\ orders' = Append(orders, newOrder)
               /\ UNCHANGED orderItems
               /\ out' = [op |-> "createOrder", threw |-> TRUE,
                          orderId |-> newOrder.id, items |-> Len(items)]
          ELSE /\ orders' = Append(orders, newOrder)
               /\ orderItems' = createOrderInsertItems(newOrder, items)
               /\ out' = [op |-> "createOrder", threw |-> FALSE,
                          orderId |-> newOrder.id, items |-> Len(items)]
       /\ UNCHANGED <<users, adminPermissions, products, prescriptions, cartItems,
                      sessionUserId, calls, added,
                   categories, brands>>

\* Faulty variant: the items are inner-joined, so an order without items
\* yields no row.
getOrderRows_innerJoin(id) ==
    LET order == SelectSeq(orders, LAMBDA o : o.id = id)
        items == SelectSeq(orderItems, LAMBDA i : i.orderId = id)
    IN IF order = <<>> THEN <<>>
       ELSE [k \in 1..Len(items) |->
                [order |-> order[1], orderItem |-> {items[k]},
                 product |-> {p \in products : p.id = items[k].productId}]]

\* The rows of getOrder's select: the order left-joined with its items, each
\* item left-joined with its product; a side without a match is null (empty).
getOrderRows(id) ==
    LET order == SelectSeq(orders, LAMBDA o : o.id = id)
        items == SelectSeq(orderItems, LAMBDA i : i.orderId = id)
    IN IF order = <<>> THEN <<>>
       ELSE IF items = <<>>
       THEN <<[order |-> order[1], orderItem |-> {}, product |-> {}]>>
       ELSE [k \in 1..Len(items) |->
                [order |-> order[1], orderItem |-> {items[k]},
                 product |-> {p \in products : p.id = items[k].productId}]]

\* Faulty variant: each item is returned with the live price of its product.
getOrder_livePrice(id) ==
    LET orderWithItems == getOrderRows(id)
        kept == SelectSeq(orderWithItems,
                    LAMBDA row : row.orderItem # {} /\ row.product # {})
    IN IF Len(orderWithItems) = 0 THEN {}
       ELSE {[order |-> orderWithItems[1].order,
              orderItems |-> [k \in 1..Len(kept) |->
                  [item |-> [(CHOOSE i \in kept[k].orderItem : TRUE) EXCEPT
                                !.price = (CHOOSE p \in kept[k].product : TRUE).price],
                   product |-> CHOOSE p \in kept[k].product : TRUE]]]}

\* getOrder(id): undefined (the empty set) when the select has no row, else
\* the order of the first row with the items of the rows that have both an
\* item and a product.
getOrder(id) ==
    LET orderWithItems == getOrderRows(id)
        kept == SelectSeq(orderWithItems,
                    LAMBDA row : row.orderItem # {} /\ row.product # {})
    IN IF Len(orderWithItems) = 0 THEN {}
       ELSE {[order |-> orderWithItems[1].order,
              orderItems |-> [k \in 1..Len(kept) |->
                  [item |-> CHOOSE i \in kept[k].orderItem : TRUE,
                   product |-> CHOOSE p \in kept[k].product : TRUE]]]}

\* getOrder(id), called by a client.
GetOrder(id) ==
    /\ out' = [op |-> "getOrder", threw |-> FALSE, id |-> id, result |-> getOrder(id)]
    /\ UNCHANGED <<users, adminPermissions, products, prescriptions, cartItems,
                   orders, orderItems, sessionUserId, calls, added,
                   categories, brands>>

\* The rows of getOrders' select: the orders of the user, newest first, each
\* left-joined with its items and their products.
RECURSIVE getOrdersRows(_, _)
getOrdersRows(userId, n) ==
    IF n = 0 THEN <<>>
    ELSE (IF orders[n].userId = userId THEN getOrderRows(orders[n].id) ELSE <<>>)
         \o getOrdersRows(userId, n - 1)

\* The loop "Group by order": ids holds the keys of groupedOrders in the order
\* they were added, grouped the value of each key.
RECURSIVE groupOrders(_, _, _)
groupOrders(rows, ids, grouped) ==
    IF rows = <<>> THEN [i \in 1..Len(ids) |-> grouped[ids[i]]]
    ELSE LET row == Head(rows)
             orderId == row.order.id
             seen == orderId \in DOMAIN grouped
             group == IF seen THEN grouped[orderId]
                      ELSE [order |-> row.order, orderItems |-> <<>>]
             pushed == IF row.orderItem # {} /\ row.product # {}
                       THEN [group EXCEPT !.orderItems =
                                Append(@, [item |-> CHOOSE i \in row.orderItem : TRUE,
                                           product |-> CHOOSE p \in row.product : TRUE])]
                       ELSE group
         IN groupOrders(Tail(rows),
                        IF seen THEN ids ELSE Append(ids, orderId),
                        (orderId :> pushed) @@ grouped)

\* Faulty variant: the rows without an item are discarded before grouping.
getOrders_itemlessDropped(userId) ==
    groupOrders(SelectSeq(getOrdersRows(userId, Len(orders)),
                          LAMBDA row : row.orderItem # {} /\ row.product # {}),
                <<>>, <<>>)

\* getOrders(userId): Object.values(groupedOrders).
getOrders(userId) == groupOrders(getOrdersRows(userId, Len(orders)), <<>>, <<>>)

\* getOrders(userId), called by a client.
GetOrders(userId) ==
    /\ out' = [op |-> "getOrders", threw |-> FALSE, userId |-> userId,
               result |-> getOrders(userId)]
    /\ UNCHANGED <<users, adminPermissions, products, prescriptions, cartItems,
                   orders, orderItems, categories, brands, sessionUserId, calls,
                   added>>

\* Faulty variant: an omitted paymentStatus is written as NULL.
updateOrderStatus_clearsPayment(id, status, paymentStatus) ==
    [i \in 1..Len(orders) |->
        IF orders[i].id = id
        THEN ApplySet(orders[i],
                      ("status" :> status)
                      @@ ("paymentStatus" :>
                            IF paymentStatus \in {Undefined, Missing} THEN NULL
                            ELSE paymentStatus))
        ELSE orders[i]]

\* updateOrderStatus(id, status, paymentStatus): the orders table after the
\* UPDATE.  updateData carries paymentStatus only if (paymentStatus) holds,
\* which an omitted and an empty value both fail.
updateOrderStatus(id, status, paymentStatus) ==
    [i \in 1..Len(orders) |->
        IF orders[i].id = id
        THEN ApplySet(orders[i],
                      ("status" :> status)
                      @@ (IF paymentStatus \in {Undefined, Missing}
                          THEN [x \in {} |-> x]
                          ELSE ("paymentStatus" :> paymentStatus)))
        ELSE orders[i]]

\* storage.updateOrderStatus(id, status, paymentStatus), called directly.
UpdateOrderStatus(id, status, paymentStatus) ==
    /\ orders' = updateOrderStatus(id, status, paymentStatus)
    /\ out' = [op |-> "updateOrderStatus", threw |-> FALSE, id |-> id,
               status |-> status, paymentStatus |-> paymentStatus]
    /\ UNCHANGED <<users, adminPermissions, products, prescriptions, cartItems,
                   orderItems, categories, brands, sessionUserId, calls, added>>

\* The values passed as status and as paymentStatus; Undefined is the omitted
\* argument, Missing the empty string.
OrderStatuses == {"pending", "shipped"}
PaymentStatuses == {Undefined, Missing, "paid"}

\* The order ids a client asks for: generated ones and one no order has.
OrderIds == {Id("o", 1), Id("o", 2), Id("o", 9)}

OrderInputs ==
    [userId : ExternalSubs \cup {"x9"}, orderNumber : {"ORD-1", "ORD-2"},
     totalAmount : {"9.99"}]

OrderItemInputs ==
    LET item(p) == [productId |-> p, quantity |-> 1, price |-> "9.99"]
    IN {<<>>, <<item(Id("p", 1))>>, <<item(Id("p", 9))>>,
        <<item(Id("p", 1)), item(Id("p", 9))>>, <<item(Id("p", 1)), item(Id("p", 1))>>}

-----------------------------------------------------------------------------
(* Register requests of independent clients, their statements interleaved *)

\* An answer of POST /api/auth/register to request r.
RegisterAnswer(status, message, bodyUsers) ==
    Response("POST /api/auth/register", status, message, TRUE, bodyUsers)

\* Request r enters the handler: the body is validated and getUserByUsername
\* runs.
RegisterSelectUsername(r, body) ==
    /\ r \notin DOMAIN calls
    /\ IF body.username = Missing \/ body.email = Missing \/ body.password = Missing
       THEN /\ out' = RegisterAnswer(400, "All fields are required", {})
            /\ calls' = calls
       ELSE IF getUserByUsername(body.username) # {}
       THEN /\ out' = RegisterAnswer(400, "Username already exists", {})
            /\ calls' = calls
       ELSE /\ out' = out
            /\ calls' = (r :> [body |-> body, next |-> "getUserByEmail"]) @@ calls
    /\ UNCHANGED <<users, adminPermissions, products, prescriptions, cartItems,
                   orders, orderItems, categories, brands, sessionUserId, added>>

\* Request r goes on: getUserByEmail runs.
RegisterSelectEmail(r) ==
    /\ r \in DOMAIN calls
    /\ calls[r].next = "getUserByEmail"
    /\ IF getUserByEmail(calls[r].body.email) # {}
       THEN /\ out' = RegisterAnswer(400, "Email already exists", {})
            /\ calls' = [x \in DOMAIN calls \ {r} |-> calls[x]]
       ELSE /\ out' = out
            /\ calls' = [calls EXCEPT ![r].next = "createUser"]
    /\ UNCHANGED <<users, adminPermissions, products, prescriptions, cartItems,
                   orders, orderItems, categories, brands, sessionUserId, added>>

\* Request r goes on: createUser inserts; an insert the table refuses throws
\* and the catch block answers 500.
RegisterCreateUser(r) ==
    /\ r \in DOMAIN calls
    /\ calls[r].next = "createUser"
    /\ LET body == calls[r].body
           newUser == createUserRow([username |-> body.username, email |-> body.email,
                                     password |-> bcryptHash(body.password),
                                     isAdmin |-> FALSE])
       IN IF UsersAccept(users, newUser)
          THEN /\ Cardinality(GeneratedUsers) < MaxUsers
               /\ users' = users \cup {newUser}
               /\ sessionUserId' = newUser.id
               /\ out' = RegisterAnswer(200, "Registration successful",
                                        {WithoutPassword(newUser)})
          ELSE /\ UNCHANGED <<users, sessionUserId>>
               /\ out' = RegisterAnswer(500, "Internal server error", {})
    /\ calls' = [x \in DOMAIN calls \ {r} |-> calls[x]]
    /\ UNCHANGED <<adminPermissions, products, prescriptions, cartItems, orders,
                   orderItems, categories, brands, added>>

\* The bodies of the concurrent register requests.
ConcurrentRegistrations ==
    [username : Usernames \cup {Missing}, email : Emails, password : {"pw123"}]

-----------------------------------------------------------------------------
(* Initial database and the specification of the authentication routes *)

Init ==
    /\ users = {}
    /\ adminPermissions = <<>>
    /\ products = {}
    /\ prescriptions = {}
    /\ cartItems = <<>>
    /\ orders = <<>>
    /\ orderItems = <<>>
    /\ categories = {}
    /\ brands = {}
    /\ sessionUserId = NULL
    /\ calls = <<>>
    /\ added = <<>>
    /\ out = NoOutcome

NextAuth ==
    \/ \E body \in Registrations : Register(body)
    \/ \E body \in Credentials : Login(body)
    \/ Logout
    \/ \E userData \in UpsertInputs : UpsertUser(userData)

SpecAuth == Init /\ [][NextAuth]_vars

\* Register requests whose statements interleave.
NextRegisterConc ==
    \/ \E r \in Requests, body \in ConcurrentRegistrations :
          RegisterSelectUsername(r, body)
    \/ \E r \in Requests : RegisterSelectEmail(r)
    \/ \E r \in Requests : RegisterCreateUser(r)

SpecRegisterConc == Init /\ [][NextRegisterConc]_vars

PermFixtureUsers ==
    \/ Register([username |-> "alice", email |-> "a@x.com", password |-> "pw123"])
    \/ UpsertUser([id |-> "x1", email |-> "b@x.com"])

NextPerm ==
    \/ PermFixtureUsers
    \/ \E u \in TargetIds \cup {"x9"}, p \in {"edit_products", "add_products"} :
          AddAdminPermission(u, p)
    \/ \E u \in TargetIds, p \in {"edit_products", "add_products"} :
          RemoveAdminPermission(u, p)

SpecPerm == Init /\ [][NextPerm]_vars

\* The role labels passed to setUserAdmin; Undefined is the omitted argument.
RoleArguments == {Undefined, "super_admin", "manager"}

\* setUserAdmin on stored and unknown users.
NextRole ==
    \/ PermFixtureUsers
    \/ \E id \in TargetIds \cup {"x9"}, makeAdmin \in BOOLEAN, role \in RoleArguments :
          SetUserAdmin(id, makeAdmin, role)

SpecRole == Init /\ [][NextRole]_vars

\* upsertUser beside a registered user and admin grants.
NextUpsert ==
    \/ Register([username |-> "alice", email |-> "a@x.com", password |-> "pw123"])
    \/ \E userData \in UpsertInputs : UpsertUser(userData)
    \/ \E id \in ExternalSubs, makeAdmin \in BOOLEAN, role \in {Undefined, "manager"} :
          SetUserAdmin(id, makeAdmin, role)

SpecUpsert == Init /\ [][NextUpsert]_vars

\* Prescription submissions by stored and unknown callers.
NextSubmit ==
    \/ PermFixtureUsers
    \/ \E req \in SubmitRequests :
          Cardinality(prescriptions) < MaxPrescriptions /\ PostPrescriptionsSubmit(req)

SpecSubmit == Init /\ [][NextSubmit]_vars

\* Reviews and re-reviews of a submitted prescription.
NextReview ==
    \/ PermFixtureUsers
    \/ /\ prescriptions = {}
       /\ PostPrescriptionsSubmit([sub |-> "x1",
                                   body |-> [userId |-> Undefined,
                                             patientName |-> "Ann"]])
    \/ \E review \in Reviews :
          UpdatePrescriptionStatus(review.id, review.status, review.reviewNotes,
                                   review.reviewedBy)

SpecReview == Init /\ [][NextReview]_vars

NextAdmin ==
    \/ PermFixtureUsers
    \/ \E u \in ExternalSubs, p \in PermissionNames :
          \/ Len(adminPermissions) < MaxGrants /\ AddAdminPermission(u, p)
          \/ RemoveAdminPermission(u, p)
    \/ \E u \in ExternalSubs : SetUserAdmin(u, TRUE, "super_admin")
    \/ \E route \in AdminRouteNames : \E req \in AdminRequests(route) :
          AdminRoute(route, req)

SpecAdmin == Init /\ [][NextAdmin]_vars

\* Admin requests between grants and revocations of the admin flag and of
\* permission rows.
NextRevoke ==
    \/ PermFixtureUsers
    \/ \E u \in ExternalSubs, p \in PermissionNames :
          \/ Len(adminPermissions) < MaxGrants /\ AddAdminPermission(u, p)
          \/ RemoveAdminPermission(u, p)
    \/ \E u \in ExternalSubs :
          \/ SetUserAdmin(u, TRUE, "super_admin")
          \/ SetUserAdmin(u, FALSE, Undefined)
    \/ \E route \in AdminRouteNames : \E req \in AdminRequests(route) :
          AdminRoute(route, req)

SpecRevoke == Init /\ [][NextRevoke]_vars

CartFixture ==
    \/ UpsertUser([id |-> "x1", email |-> "b@x.com"])
    \/ \E slug \in {"vitamin-d3", "zinc"} :
          CreateProduct([slug |-> slug, name |-> slug, price |-> "9.99",
                         isActive |-> TRUE])

\* addToCart calls one after the other.
NextCart ==
    \/ CartFixture
    \/ \E u \in ExternalSubs \cup {"x9"}, p \in {Id("p", 1), Id("p", 2)},
          q \in 1..MaxQty : AddToCart(u, p, q)
    \/ \E u \in ExternalSubs, p \in {Id("p", 1), Id("p", 2)}, q \in 1..MaxQty :
          UpdateCartItem(u, p, q)

SpecCart == Init /\ [][NextCart]_vars

\* The users and products the cart deletes are called with: stored ones and
\* ones no row has.
CartUsers == TargetIds \cup {"x9"}
CartProducts == {Id("p", 1), Id("p", 2), Id("p", 9)}

\* Carts of two users, removeFromCart and clearCart.
NextCartRemove ==
    \/ PermFixtureUsers
    \/ \E slug \in {"vitamin-d3", "zinc"} :
          CreateProduct([slug |-> slug, name |-> slug, price |-> "9.99",
                         isActive |-> TRUE])
    \/ \E u \in TargetIds, p \in {Id("p", 1), Id("p", 2)} : AddToCart(u, p, MaxQty)
    \/ \E u \in CartUsers, p \in CartProducts : RemoveFromCart(u, p)
    \/ \E u \in CartUsers : ClearCart(u)

SpecCartRemove == Init /\ [][NextCartRemove]_vars

\* addToCart calls of independent requests, their statements interleaved.
NextCartConc ==
    \/ UpsertUser([id |-> "x1", email |-> "b@x.com"])
    \/ CreateProduct([slug |-> "vitamin-d3", name |-> "Vitamin D3", price |-> "9.99",
                     isActive |-> TRUE])
    \/ \E r \in Requests, q \in 1..MaxQty : AddToCartSelect(r, "x1", Id("p", 1), q)
    \/ \E r \in Requests : AddToCartWrite(r)

SpecCartConc == Init /\ [][NextCartConc]_vars

NextOrder ==
    \/ UpsertUser([id |-> "x1", email |-> "b@x.com"])
    \/ CreateProduct([slug |-> "vitamin-d3", name |-> "Vitamin D3", price |-> "9.99",
                     isActive |-> TRUE])
    \/ \E order \in OrderInputs, items \in OrderItemInputs : CreateOrder(order, items)
    \/ \E id \in OrderIds : GetOrder(id)

SpecOrder == Init /\ [][NextOrder]_vars

\* The orders placed in the specifications below: no item or one item of the
\* first product, at a unit price the column order_items.price represents.
PlacedOrders == [userId : ExternalSubs, orderNumber : {"ORD-1", "ORD-2"},
                 totalAmount : {"9.99"}]
PlacedItems ==
    {<<>>} \cup {<<[productId |-> Id("p", 1), quantity |-> 1, price |-> price]>> :
                    price \in {"9.99", "12.50"}}

OrderFixture ==
    \/ UpsertUser([id |-> "x1", email |-> "b@x.com"])
    \/ CreateProduct([slug |-> "vitamin-d3", name |-> "Vitamin D3", price |-> "9.99",
                     isActive |-> TRUE])
    \/ \E order \in PlacedOrders, items \in PlacedItems : CreateOrder(order, items)

\* Orders after their creation: status and price updates, reads.
NextOrderLife ==
    \/ OrderFixture
    \/ \E id \in OrderIds :
          \/ GetOrder(id)
          \/ \E status \in OrderStatuses, paymentStatus \in PaymentStatuses :
                UpdateOrderStatus(id, status, paymentStatus)
    \/ \E price \in {"9.99", "12.50"} : UpdateProduct(Id("p", 1), [price |-> price])

SpecOrderLife == Init /\ [][NextOrderLife]_vars

\* Orders and the deletes of the rows their items reference.
NextOrderRefs ==
    \/ OrderFixture
    \/ DeleteProduct(Id("p", 1))
    \/ DeleteAllProducts
    \/ ClearAllDataStep

SpecOrderRefs == Init /\ [][NextOrderRefs]_vars

\* Orders of two users with no, one or two items, and getOrders.
NextOrderList ==
    \/ PermFixtureUsers
    \/ CreateProduct([slug |-> "vitamin-d3", name |-> "Vitamin D3", price |-> "9.99",
                     isActive |-> TRUE])
    \/ \E order \in [userId : TargetIds, orderNumber : {"ORD-1", "ORD-2", "ORD-3"},
                      totalAmount : {"9.99"}] :
          \E n \in 0..2 :
             CreateOrder(order, [k \in 1..n |-> [productId |-> Id("p", 1),
                                                 quantity |-> k, price |-> "9.99"]])
    \/ \E userId \in TargetIds \cup {"x9"} : GetOrders(userId)

SpecOrderList == Init /\ [][NextOrderList]_vars

\* No clearAllData call is between two of its statements.
NoClearInFlight == "clear" \notin DOMAIN calls

\* Rows in every table, and clearAllData with no other call in between its
\* statements.
NextClear ==
    \/ NoClearInFlight /\ UpsertUser([id |-> "x1", email |-> "b@x.com"])
    \/ NoClearInFlight /\ CreateCategory([name |-> "Vitamins", slug |-> "vitamins"])
    \/ NoClearInFlight /\ brands = {} /\ CreateBrand([name |-> "Generic"])
    \/ /\ NoClearInFlight
       /\ CreateProduct([slug |-> "vitamin-d3", name |-> "Vitamin D3",
                         price |-> "9.99", categoryId |-> Id("cat", 1),
                         brandId |-> Id("b", 1), isActive |-> TRUE])
    \/ NoClearInFlight /\ AddToCart("x1", Id("p", 1), MaxQty)
    \/ \E items \in PlacedItems :
          /\ NoClearInFlight
          /\ CreateOrder([userId |-> "x1", orderNumber |-> "ORD-1",
                          totalAmount |-> "9.99"], items)
    \/ NoClearInFlight /\ AddAdminPermission("x1", "edit_products")
    \/ /\ NoClearInFlight
       /\ Cardinality(prescriptions) < MaxPrescriptions
       /\ PostPrescriptionsSubmit([sub |-> "x1",
                                   body |-> [userId |-> Undefined,
                                             patientName |-> "Ann"]])
    \/ ClearAllDataStep

SpecClear == Init /\ [][NextClear]_vars

\* The catalog operations, one after the other.
NextCatalog ==
    \/ CreateCategory([name |-> "Vitamins", slug |-> "vitamins"])
    \/ CreateBrand([name |-> "Generic"]) /\ brands = {}
    \/ \E product \in CatalogProducts :
          ProductClock <= MaxClock /\ CreateProduct(product)
    \/ \E id \in {Id("p", 1), Id("p", 2)} :
          \/ \E a \in BOOLEAN : UpdateProduct(id, [isActive |-> a])
          \/ DeleteProduct(id)
    \/ \E filters \in ProductFilters : GetProducts(filters)

SpecCatalog == Init /\ [][NextCatalog]_vars

\* Seeding runs and clearAllData, one script at a time.
NextSeed ==
    \/ \E catalog \in Catalogs : \E stock \in [1..Len(catalog) -> StockDraws] :
          "clear" \notin DOMAIN calls /\ SeedAuthenticCatalog(catalog, stock)
    \/ ClearAllDataStep

SpecSeed == Init /\ [][NextSeed]_vars

\* Items whose names and brands contain the hyphen that joins the parts of
\* the deduplication key.
HyphenItems ==
    {[ProductName |-> name, Brand |-> brand, Category |-> "Pain Relief", Price |-> 5] :
        name \in {<<"A">>, <<"A", "-", "B">>}, brand \in {<<"C">>, <<"B", "-", "C">>}}

HyphenCatalogs == UNION {[1..n -> HyphenItems] : n \in 0..MaxItems}

\* Seeding runs on catalogs with hyphens, and clearAllData, one script at a
\* time.
NextSeedKeys ==
    \/ \E catalog \in HyphenCatalogs : \E stock \in [1..Len(catalog) -> {50}] :
          "clear" \notin DOMAIN calls /\ SeedAuthenticCatalog(catalog, stock)
    \/ ClearAllDataStep

SpecSeedKeys == Init /\ [][NextSeedKeys]_vars

-----------------------------------------------------------------------------
(* Claims about the authentication routes, under SpecAuth *)

AllPresent(body) == \A f \in DOMAIN body : body[f] # Missing

\* C7: a register request whose username and email are both unused creates
\* exactly one user, with that username and email, and answers 200 with that
\* user without a password field; a register request (all fields given) whose
\* username is taken is answered 400 "Username already exists", one whose
\* email is taken is answered 400, and neither creates a user row.
C7_RegisterOnceThenDuplicate ==
    [][\A body \in Registrations :
        (Register(body) /\ AllPresent(body)) =>
            LET nameTaken == \E u \in users : u.username = body.username
                emailTaken == \E u \in users : u.email = body.email
            IN IF nameTaken
               THEN /\ out'.status = 400
                    /\ out'.message = "Username already exists"
                    /\ out'.users = {}
                    /\ users' = users
               ELSE IF emailTaken
               THEN /\ out'.status = 400
                    /\ out'.users = {}
                    /\ users' = users
               ELSE /\ out'.status = 200
                    /\ Cardinality(users') = Cardinality(users) + 1
                    /\ \E nu \in users' \ users :
                          /\ users' = users \cup {nu}
                          /\ nu.username = body.username
                          /\ nu.email = body.email
                          /\ \A o \in out'.users :
                                /\ "password" \notin DOMAIN o
                                /\ o.id = nu.id
                                /\ o.username = body.username
                          /\ Cardinality(out'.users) = 1
      ]_vars

\* C7 witness: a second registration with the username of a registered user
\* has just been refused.
C7_Witness ==
    /\ out.op = "POST /api/auth/register"
    /\ out.status = 400
    /\ out.message = "Username already exists"
    /\ \E u \in users : u.password # NULL /\ u.id \notin ExternalSubs

\* C8: login answers 200 with the user, password removed, and sets the
\* session's user id exactly when both fields are given, a user with that
\* username exists, it has a stored hash and the password matches the hash;
\* otherwise it answers 400 (a field missing) or 401, with no user in the
\* body and the session's user id unchanged.
C8_LoginOnlyOnMatch ==
    [][\A body \in Credentials :
        Login(body) =>
            LET matching == {u \in users : /\ u.username = body.username
                                           /\ u.password # NULL
                                           /\ u.password = bcryptHash(body.password)}
            IN IF AllPresent(body) /\ matching # {}
               THEN /\ out'.status = 200
                    /\ \E u \in matching :
                          /\ sessionUserId' = u.id
                          /\ out'.users = {WithoutPassword(u)}
                    /\ \A o \in out'.users : "password" \notin DOMAIN o
               ELSE /\ out'.status = IF AllPresent(body) THEN 401 ELSE 400
                    /\ out'.users = {}
                    /\ sessionUserId' = sessionUserId
      ]_vars

\* C8 witness: a login has succeeded and the session carries the user's id.
C8_Witness ==
    /\ out.op = "POST /api/auth/login"
    /\ out.status = 200
    /\ \E o \in out.users : o.id = sessionUserId

-----------------------------------------------------------------------------
(* Claims about admin permissions, under SpecPerm *)

\* C9: hasAdminPermission(u, P) is true right after addAdminPermission(u, P)
\* returned (it throws exactly when u is no user), false right after
\* removeAdminPermission(u, P) whatever the number of duplicate rows, and at
\* every time true iff some row is exactly (u, P).
C9_PermissionAddRemove ==
    /\ \A u \in TargetIds \cup {"x9"}, p \in PermissionNames :
          hasAdminPermission(u, p) <=>
              \E i \in 1..Len(adminPermissions) :
                  adminPermissions[i] = [userId |-> u, permission |-> p]
    /\ out.op = "addAdminPermission" =>
          /\ out.threw <=> ~\E u \in users : u.id = out.userId
          /\ ~out.threw => hasAdminPermission(out.userId, out.permission)
    /\ out.op = "removeAdminPermission" =>
          ~hasAdminPermission(out.userId, out.permission)

\* C9 witness: a removal has just deleted duplicate rows of one (user, permission).
C9_Witness ==
    /\ out.op = "removeAdminPermission"
    /\ out.rowCount > 1
    /\ ~hasAdminPermission(out.userId, out.permission)

-----------------------------------------------------------------------------
(* Claims about the admin routes, under SpecAdmin *)

GuardedAdminRoutes == AdminRouteNames \ {"GET /api/admin/me"}

\* The permission each guarded route names.
NamedPermission(route) ==
    CASE route = "POST /api/admin/products" -> "add_products"
      [] route \in {"GET /api/admin/prescriptions",
                    "PUT /api/admin/prescriptions/:id/status"} -> "view_prescriptions"
      [] route \in {"POST /api/admin/users/:id/admin",
                    "POST /api/admin/users/:id/permissions"} -> "manage_users"
      [] OTHER -> "edit_products"

Authenticated(req) == req.sub # NULL
AdminFlag(sub) == \E u \in users : u.id = sub /\ u.isAdmin
HoldsRow(sub, permission) ==
    \E i \in 1..Len(adminPermissions) :
        adminPermissions[i] = [userId |-> sub, permission |-> permission]
DataUnchanged ==
    UNCHANGED <<users, adminPermissions, products, prescriptions, cartItems,
                orders, orderItems, categories, brands>>

\* C5 as stated: on every route under /api/admin/*, GET /api/admin/me included,
\* the handler runs only for an authenticated caller whose admin flag is true
\* and who holds a permission row (the one the route names, where it names
\* one); any other request gets 401 or 403 and writes nothing.
C5_EveryAdminRoute ==
    [][\A route \in AdminRouteNames \cap {out'.op} : \A req \in AdminRequests(route) :
        AdminRoute(route, req) =>
            /\ out'.handler =>
                  /\ Authenticated(req)
                  /\ AdminFlag(req.sub)
                  /\ \E p \in PermissionNames :
                        /\ route \in GuardedAdminRoutes => p = NamedPermission(route)
                        /\ HoldsRow(req.sub, p)
            /\ ~out'.handler => out'.status \in {401, 403} /\ DataUnchanged
      ]_vars

\* C5 amended: on every route under /api/admin/* except GET /api/admin/me the
\* handler runs only if the caller is authenticated, its admin flag is true
\* and it holds a row for the permission the route names; a request failing a
\* check gets 401 (not authenticated) or 403 and writes nothing.  GET
\* /api/admin/me runs its handler for every authenticated caller, answers 200
\* only to a caller whose admin flag is true, and never writes.
C5_GuardedAdminRoutes ==
    [][\A route \in AdminRouteNames \cap {out'.op} : \A req \in AdminRequests(route) :
        AdminRoute(route, req) =>
            IF route \in GuardedAdminRoutes
            THEN /\ out'.handler =>
                       /\ Authenticated(req)
                       /\ AdminFlag(req.sub)
                       /\ HoldsRow(req.sub, NamedPermission(route))
                 /\ ~out'.handler =>
                       /\ out'.status = IF Authenticated(req) THEN 403 ELSE 401
                       /\ DataUnchanged
            ELSE /\ out'.handler <=> Authenticated(req)
                 /\ ~out'.handler => out'.status = 401
                 /\ out'.status = 200 => AdminFlag(req.sub)
                 /\ DataUnchanged
      ]_vars

\* C5 witness: the handler of a permission-guarded admin route has run.
C5_Witness ==
    /\ out.op \in GuardedAdminRoutes
    /\ out.handler
    /\ out.status = 200

\* C6: no response body holds a user object with a password hash.
C6_NoPasswordHashInResponse ==
    "users" \in DOMAIN out =>
        \A o \in out.users : "password" \in DOMAIN o => o.password = NULL

\* C10: for an authenticated caller whose admin flag is true, the handler of a
\* permission-guarded route runs iff a row (caller, the route's permission)
\* exists; a caller without that row is answered 401 or 403 and nothing is
\* written, whatever other rows or role label the caller has.
C10_PermissionRowDecides ==
    [][\A route \in GuardedAdminRoutes \cap {out'.op} : \A req \in AdminRequests(route) :
        AdminRoute(route, req) =>
            /\ ~HoldsRow(req.sub, NamedPermission(route)) =>
                  /\ ~out'.handler
                  /\ out'.status \in {401, 403}
                  /\ DataUnchanged
            /\ (Authenticated(req) /\ AdminFlag(req.sub)) =>
                  (out'.handler <=> HoldsRow(req.sub, NamedPermission(route)))
      ]_vars

\* C10 witness: an admin labelled super_admin who holds add_products but not
\* edit_products has just been refused on a route guarded by edit_products.
C10_Witness ==
    /\ out.op \in GuardedAdminRoutes
    /\ out.status = 403
    /\ out.message = "Permission 'edit_products' required"
    /\ \A u \in users : u.id \in ExternalSubs =>
          /\ u.isAdmin
          /\ u.adminRole = "super_admin"
          /\ HoldsRow(u.id, "add_products")
          /\ ~HoldsRow(u.id, "edit_products")

-----------------------------------------------------------------------------
(* Claims about the cart *)

\* C1: when addToCart(u, p, q1) has just inserted the first row of (u, p) and
\* addToCart(u, p, q2) follows it, there is exactly one cart row of (u, p), its
\* quantity is q1 + q2, and getCartItems(u) has one entry for p, with that
\* quantity.
C1_AddToCartTwice ==
    [][\A u \in ExternalSubs, p \in {Id("p", 1), Id("p", 2)}, q2 \in 1..MaxQty :
        (/\ out.op = "addToCart"
         /\ out.inserted
         /\ out.userId = u
         /\ out.productId = p
         /\ AddToCart(u, p, q2)) =>
            /\ Cardinality(CartRows(u, p)') = 1
            /\ \A i \in CartRows(u, p)' : cartItems'[i].quantity = out.quantity + q2
            /\ LET entries == getCartItems(u)'
               IN /\ Cardinality({i \in 1..Len(entries) : entries[i].productId = p}) = 1
                  /\ \A i \in 1..Len(entries) :
                        entries[i].productId = p =>
                            /\ entries[i].quantity = out.quantity + q2
                            /\ entries[i].product.id = p
      ]_vars

\* C1 witness: the second of two addToCart calls for one (user, product) has
\* updated the row the first inserted: quantities 1 and 2 make 3.
C1_Witness ==
    /\ out.op = "addToCart"
    /\ ~out.threw
    /\ ~out.inserted
    /\ out.quantity = 2
    /\ \E i \in CartRows(out.userId, out.productId) : cartItems[i].quantity = 3

\* C2: at most one cart row per (user, product) pair, in every state that
\* interleaved addToCart calls reach.
C2_OneRowPerUserProduct ==
    \A u \in ExternalSubs, p \in {Id("p", 1)} : Cardinality(CartRows(u, p)) <= 1

\* C3: once the concurrent addToCart calls have completed, the quantities
\* stored for (u, p) add up to everything the calls added (no increment lost).
C3_NoLostIncrement ==
    DOMAIN calls = {} =>
        \A u \in ExternalSubs, p \in {Id("p", 1)} :
            SumQuantity(SelectSeq(cartItems,
                LAMBDA c : c.userId = u /\ c.productId = p)) = Added(u, p)

-----------------------------------------------------------------------------
(* Claims about orders, under SpecOrder *)

\* C4: after createOrder returned or threw, either the order row and all its
\* item rows exist (it returned), or no row of that order does (it threw).
C4_CreateOrderAtomic ==
    out.op = "createOrder" =>
        LET orderRows == {i \in 1..Len(orders) : orders[i].id = out.orderId}
            itemRows == {i \in 1..Len(orderItems) : orderItems[i].orderId = out.orderId}
        IN IF out.threw
           THEN orderRows = {} /\ itemRows = {}
           ELSE Cardinality(orderRows) = 1 /\ Cardinality(itemRows) = out.items
-----------------------------------------------------------------------------
(* Claims about updateCartItem, under SpecCart *)

\* C11: updateCartItem(u, p, q) leaves the row of (u, p) with quantity exactly
\* q, whatever quantity it had, and changes no other cart row.
C11_UpdateCartItemReplaces ==
    [][\A u \in ExternalSubs, p \in {Id("p", 1), Id("p", 2)}, q \in 1..MaxQty :
        UpdateCartItem(u, p, q) =>
            /\ Len(cartItems') = Len(cartItems)
            /\ \A i \in 1..Len(cartItems) :
                  IF cartItems[i].userId = u /\ cartItems[i].productId = p
                  THEN /\ cartItems'[i].quantity = q
                       /\ cartItems'[i].id = cartItems[i].id
                       /\ cartItems'[i].userId = u
                       /\ cartItems'[i].productId = p
                  ELSE cartItems'[i] = cartItems[i]
      ]_vars

\* C11 witness: updateCartItem has set the row of one product to 1 while the
\* user's row of another product keeps a larger quantity.
C11_Witness ==
    /\ out.op = "updateCartItem"
    /\ out.rowCount = 1
    /\ out.quantity = 1
    /\ \E i \in CartRows(out.userId, out.productId) : cartItems[i].quantity = 1
    /\ \E i \in 1..Len(cartItems) :
          /\ cartItems[i].productId # out.productId
          /\ cartItems[i].quantity > 1
-----------------------------------------------------------------------------
(* Claims about reading and updating orders, under SpecOrder *)

\* C12: getOrder(id) returns the not-found value exactly when no order row has
\* that id; for an order without order items it returns that order with an
\* empty item list.
C12_GetOrderWithoutItems ==
    out.op = "getOrder" =>
        /\ out.result = {} <=> ~\E k \in 1..Len(orders) : orders[k].id = out.id
        /\ \A k \in 1..Len(orders) :
              (/\ orders[k].id = out.id
               /\ ~\E j \in 1..Len(orderItems) : orderItems[j].orderId = out.id)
              => \E r \in out.result : r.order = orders[k] /\ Len(r.orderItems) = 0

\* C12 witness: getOrder has returned an existing order that has no items.
C12_Witness ==
    /\ out.op = "getOrder"
    /\ \E r \in out.result : r.order.id = out.id /\ Len(r.orderItems) = 0
    /\ \E k \in 1..Len(orders) : orders[k].id = out.id
-----------------------------------------------------------------------------
(* Claims about the catalog, under SpecCatalog *)

\* C13: whatever createProduct, updateProduct and deleteProduct calls came
\* before, getProducts returns only stored products whose active flag is true
\* at the time of the call.
C13_OnlyActiveProducts ==
    out.op = "getProducts" =>
        \A k \in 1..Len(out.result) :
            \E p \in products : p = out.result[k].product /\ p.isActive = TRUE

\* C13 witness: getProducts has answered with a product while an inactive
\* product is stored.
C13_Witness ==
    /\ out.op = "getProducts"
    /\ Len(out.result) > 0
    /\ \E p \in products : p.isActive = FALSE
\* The price of a product in hundredths, for the prices of CatalogProducts.
PriceCents(price) == CASE price = "9.99" -> 999 [] price = "19.99" -> 1999

\* name contains search, case-insensitively, for the names of CatalogProducts.
NameContains(name, search) == <<name, search>> \in {<<"Vitamin D3", "vit">>}

\* C14: getProducts(filters) honours every recognised filter: category, brand,
\* search in the name, inclusive price range, stock above zero, and at most
\* limit products from offset on.
C14_FiltersHonoured ==
    out.op = "getProducts" =>
        LET f == out.filters
            returned == {out.result[k].product : k \in 1..Len(out.result)}
        IN /\ "categoryId" \in DOMAIN f => \A p \in returned : p.categoryId = f.categoryId
           /\ "brandId" \in DOMAIN f => \A p \in returned : p.brandId = f.brandId
           /\ "search" \in DOMAIN f => \A p \in returned : NameContains(p.name, f.search)
           /\ "minPrice" \in DOMAIN f =>
                 \A p \in returned : PriceCents(p.price) >= 100 * f.minPrice
           /\ "maxPrice" \in DOMAIN f =>
                 \A p \in returned : PriceCents(p.price) <= 100 * f.maxPrice
           /\ ("inStock" \in DOMAIN f /\ f.inStock) =>
                 \A p \in returned : p.stockQuantity > 0
           /\ Len(out.result) <= f.limit
           /\ Len(out.result) > 0 =>
                 Len(out.result) + f.offset
                     <= Cardinality({p \in products : p.isActive = TRUE})
-----------------------------------------------------------------------------
(* Seeding twice (SpecSeed) *)

\* The rows of categories that carry the slug of a fixed definition.
CategoryRowsOf(def, table) == {c \in table : c.slug = def.slug}

\* The catalog of the seeding run an outcome belongs to, if it is one.
CatalogOf(outcome) ==
    IF outcome.op = "seedAuthenticCatalog" THEN {outcome.catalog} ELSE {}

\* A seeding run has completed and no clearAllData has started since.
SeededNotCleared ==
    /\ out.op = "seedAuthenticCatalog"
    /\ ~out.threw
    /\ "clear" \notin DOMAIN calls

\* C15 as stated: a seeding run on the same catalog that follows a completed
\* run, with no clearing in between, completes and leaves two Category rows
\* for each of the fixed category definitions.
C15_SecondRunDuplicates ==
    [][\A catalog \in Catalogs \cap CatalogOf(out') :
         \A stock \in [1..Len(catalog) -> StockDraws] :
           (/\ SeededNotCleared
            /\ out.catalog = catalog
            /\ SeedAuthenticCatalog(catalog, stock))
           => /\ ~out'.threw
              /\ \A d \in 1..Len(categoriesData) :
                   Cardinality(CategoryRowsOf(categoriesData[d], categories')) = 2]_vars

\* C15 amended: a seeding run on the same catalog that follows a completed
\* run, with no clearing in between, fails at its first category insert (the
\* slug is taken) and writes nothing: categories, brands and products stay as
\* the first run left them, one Category row for each fixed definition.
C15_SecondRunRefused ==
    [][\A catalog \in Catalogs \cap CatalogOf(out') :
         \A stock \in [1..Len(catalog) -> StockDraws] :
           (/\ SeededNotCleared
            /\ out.catalog = catalog
            /\ SeedAuthenticCatalog(catalog, stock))
           => /\ out'.threw
              /\ UNCHANGED <<categories, brands, products>>
              /\ \A d \in 1..Len(categoriesData) :
                   Cardinality(CategoryRowsOf(categoriesData[d], categories')) = 1]_vars

\* A second run was refused after a first run that created products.
C15_Witness ==
    /\ out.op = "seedAuthenticCatalog"
    /\ out.threw
    /\ out.catalog # <<>>
    /\ products # {}
    /\ \A d \in 1..Len(categoriesData) :
         Cardinality(CategoryRowsOf(categoriesData[d], categories)) = 1
-----------------------------------------------------------------------------
(* setUserAdmin and the role label (SpecRole) *)

\* The stored role labels of the user with this id (none if there is no such
\* user).
AdminRoleOf(table, id) == {u.adminRole : u \in {v \in table : v.id = id}}

\* C16 as stated: setUserAdmin called without a role leaves the user's stored
\* adminRole absent, whatever it was before; called with a role, the stored
\* role is that role.
C16_OmittedRoleClears ==
    [][\A id \in TargetIds, makeAdmin \in BOOLEAN, role \in RoleArguments :
         SetUserAdmin(id, makeAdmin, role)
         => AdminRoleOf(users', id) \subseteq
               {IF role = Undefined THEN NULL ELSE role}]_vars

\* C16 amended: setUserAdmin called without a role leaves the user's stored
\* adminRole as it was before the call; called with a role, the stored role
\* is that role.
C16_OmittedRoleKept ==
    [][\A id \in TargetIds, makeAdmin \in BOOLEAN, role \in RoleArguments :
         SetUserAdmin(id, makeAdmin, role)
         => AdminRoleOf(users', id) =
               IF role = Undefined THEN AdminRoleOf(users, id)
               ELSE {role : u \in getUserById(id)}]_vars

\* The latest call omitted the role and the user still carries a role label.
C16_Witness ==
    /\ out.op = "setUserAdmin"
    /\ out.role = Undefined
    /\ AdminRoleOf(users, out.id) \cap {"super_admin", "manager"} # {}
-----------------------------------------------------------------------------
(* updateOrderStatus (SpecOrderLife) *)

\* What updateOrderStatus(id, status, paymentStatus) does to the stored
\* orders when the values in written are the ones it writes as paymentStatus:
\* the order with this id gets the status, gets the paymentStatus if it is
\* written and keeps its paymentStatus otherwise; every other order, and
\* every other column, stays as it was.
OrderStatusEffect(id, status, paymentStatus, written) ==
    /\ Len(orders') = Len(orders)
    /\ \A i \in 1..Len(orders) :
         IF orders[i].id = id
         THEN /\ orders'[i].status = status
              /\ orders'[i].paymentStatus =
                    IF paymentStatus \in written THEN paymentStatus
                    ELSE orders[i].paymentStatus
              /\ \A f \in DOMAIN orders[i] \ {"status", "paymentStatus"} :
                    orders'[i][f] = orders[i][f]
         ELSE orders'[i] = orders[i]

\* C17 as stated: updateOrderStatus always sets the order's status; it sets
\* paymentStatus to the given value whenever one is provided, the empty
\* string included, and leaves it unchanged when none is provided; no other
\* order is modified.
C17_PaymentStatusWhenProvided ==
    [][\A id \in OrderIds, status \in OrderStatuses, paymentStatus \in PaymentStatuses :
         UpdateOrderStatus(id, status, paymentStatus)
         => OrderStatusEffect(id, status, paymentStatus,
                              PaymentStatuses \ {Undefined})]_vars

\* C17 amended: updateOrderStatus always sets the order's status; it sets
\* paymentStatus to the given value whenever a non-empty one is provided, and
\* leaves the stored paymentStatus unchanged (not cleared) when none or an
\* empty one is provided; no other order is modified.
C17_PaymentStatusWhenNonEmpty ==
    [][\A id \in OrderIds, status \in OrderStatuses, paymentStatus \in PaymentStatuses :
         UpdateOrderStatus(id, status, paymentStatus)
         => OrderStatusEffect(id, status, paymentStatus,
                              PaymentStatuses \ {Undefined, Missing})]_vars

\* The latest call omitted paymentStatus for an order that was paid, next to
\* another order.
C17_Witness ==
    /\ out.op = "updateOrderStatus"
    /\ out.paymentStatus = Undefined
    /\ Len(orders) = 2
    /\ \E i \in 1..Len(orders) :
         /\ orders[i].id = out.id
         /\ orders[i].status = "shipped"
         /\ orders[i].paymentStatus = "paid"
-----------------------------------------------------------------------------
(* Prescription submission (SpecSubmit) *)

\* C18: a prescription created through POST /api/prescriptions/submit has the
\* authenticated caller as its user, whatever userId the request body
\* carries; no submission creates a prescription of another user.
C18_PrescriptionOfCaller ==
    [][\A req \in SubmitRequests :
         PostPrescriptionsSubmit(req)
         => \A p \in prescriptions' \ prescriptions :
              /\ req.sub # NULL
              /\ p.userId = req.sub]_vars

\* A submission whose body named another stored user created a prescription.
C18_Witness ==
    /\ out.op = "POST /api/prescriptions/submit"
    /\ out.status = 200
    /\ out.req.body.userId = Id("u", 1)
    /\ getUserById(Id("u", 1)) # {}
    /\ \E p \in out.prescription : p \in prescriptions /\ p.userId = out.req.sub
-----------------------------------------------------------------------------
(* The price of an order item (SpecOrderLife) *)

\* The items getOrder returned in the latest outcome.
ReturnedItems(outcome) ==
    IF outcome.op = "getOrder"
    THEN UNION {{r.orderItems[k].item : k \in 1..Len(r.orderItems)} : r \in outcome.result}
    ELSE {}

\* C19: an order item's stored price is immutable after creation.  createOrder
\* stores each item with the unit price it is given; no later operation
\* (updateProduct changing the live price and updateOrderStatus included)
\* changes a stored item; getOrder returns each item with its stored price.
C19_ItemPriceImmutable ==
    [][/\ Len(orderItems') >= Len(orderItems)
       /\ \A i \in 1..Len(orderItems) : orderItems'[i] = orderItems[i]
       /\ \A order \in PlacedOrders, items \in PlacedItems :
            (CreateOrder(order, items) /\ ~out'.threw)
            => /\ Len(orderItems') = Len(orderItems) + Len(items)
               /\ \A k \in 1..Len(items) :
                    orderItems'[Len(orderItems) + k].price = items[k].price
       /\ \A item \in ReturnedItems(out') :
            \E i \in 1..Len(orderItems') :
               /\ orderItems'[i].id = item.id
               /\ orderItems'[i].price = item.price]_vars

\* getOrder returned a shipped order with an item whose price differs from
\* the live price of its product.
C19_Witness ==
    /\ out.op = "getOrder"
    /\ \E r \in out.result :
         /\ r.order.status = "shipped"
         /\ \E k \in 1..Len(r.orderItems) :
              r.orderItems[k].item.price # r.orderItems[k].product.price
-----------------------------------------------------------------------------
(* Order items and the rows they reference (SpecOrderRefs) *)

\* Every order item references a stored order and a stored product.
OrderItemsResolve(items, orderTable, productTable) ==
    \A i \in 1..Len(items) :
       /\ \E o \in 1..Len(orderTable) : orderTable[o].id = items[i].orderId
       /\ \E p \in productTable : p.id = items[i].productId

\* The step is a delete that was refused: deleteProduct or deleteAllProducts
\* threw, or the statement of clearAllData in turn threw.
RefusedDelete ==
    /\ \/ \E id \in {Id("p", 1)} : DeleteProduct(id)
       \/ DeleteAllProducts
       \/ ClearAllDataStep /\ "clear" \in DOMAIN calls /\ "clear" \notin DOMAIN calls'
    /\ out'.threw

\* C20: after every step of createOrder, deleteProduct, deleteAllProducts and
\* clearAllData, every order item row references an order row and a product
\* row that both exist; a delete that would leave an item without its order
\* or product is refused and changes nothing.
C20_OrderItemsResolve ==
    [][/\ OrderItemsResolve(orderItems', orders', products')
       /\ RefusedDelete =>
            UNCHANGED <<products, orders, orderItems, cartItems, categories,
                        brands>>]_vars

\* deleteProduct was refused for a product an order item references, or a
\* statement of clearAllData was refused for orders that have items.
C20_Witness ==
    /\ orderItems # <<>>
    /\ out.op \in {"deleteProduct", "clearAllData"}
    /\ out.threw
    /\ \E p \in products : ~ProductDeletable(p.id)
-----------------------------------------------------------------------------
(* clearAllData (SpecClear) *)

\* Some row of the given order items, cart items or products references a
\* row of the table with this name.
ReferencesInto(table, items, cart, catalog) ==
    CASE table = "orders" -> items # <<>>
      [] table = "products" -> items # <<>> \/ cart # <<>>
      [] table = "categories" -> \E p \in catalog : p.categoryId # NULL
      [] table = "brands" -> \E p \in catalog : p.brandId # NULL
      [] OTHER -> FALSE

\* The rows of the table with this name are gone after the step.
EmptiedByStep(table) ==
    CASE table = "order_items" -> orderItems' = <<>>
      [] table = "orders" -> orders' = <<>>
      [] table = "cart_items" -> cartItems' = <<>>
      [] table = "products" -> products' = {}
      [] table = "categories" -> categories' = {}
      [] table = "brands" -> brands' = {}

\* The table with this name is left as it was by the step.
KeptByStep(table) ==
    CASE table = "order_items" -> orderItems' = orderItems
      [] table = "orders" -> orders' = orders
      [] table = "cart_items" -> cartItems' = cartItems
      [] table = "products" -> products' = products
      [] table = "categories" -> categories' = categories
      [] table = "brands" -> brands' = brands

\* C21: clearAllData deletes from order items, orders, cart items, products,
\* categories, brands in this order, one table per statement and no statement
\* is refused; after each statement no remaining row references a row of a
\* table already emptied; after the last one the six tables are empty; users,
\* admin permissions and prescriptions are unchanged throughout.
C21_ClearAllDataInOrder ==
    [][LET order == <<"order_items", "orders", "cart_items", "products",
                      "categories", "brands">>
           k == IF "clear" \in DOMAIN calls THEN calls["clear"].step ELSE 1
       IN ClearAllDataStep =>
            /\ \A j \in 1..6 :
                 /\ j = k => EmptiedByStep(order[j])
                 /\ j # k => KeptByStep(order[j])
                 /\ j <= k => /\ EmptiedByStep(order[j])
                              /\ ~ReferencesInto(order[j], orderItems', cartItems',
                                                 products')
            /\ UNCHANGED <<users, adminPermissions, prescriptions>>
            /\ IF k = 6
               THEN out'.op = "clearAllData" /\ ~out'.threw
               ELSE "clear" \in DOMAIN calls' /\ calls'["clear"].step = k + 1]_vars

\* clearAllData has completed; users, admin permissions and prescriptions are
\* still stored.
C21_Witness ==
    /\ out.op = "clearAllData"
    /\ ~out.threw
    /\ out.step = 6
    /\ orderItems = <<>> /\ orders = <<>> /\ cartItems = <<>>
    /\ products = {} /\ categories = {} /\ brands = {}
    /\ users # {} /\ adminPermissions # <<>> /\ prescriptions # {}
-----------------------------------------------------------------------------
(* getOrders (SpecOrderList) *)

\* The stored orders of a user, newest first.
NewestFirst(userId) ==
    LET mine == SelectSeq(orders, LAMBDA o : o.userId = userId)
    IN [i \in 1..Len(mine) |-> mine[Len(mine) + 1 - i]]

\* C22: getOrders(u) returns the orders of user u, each exactly once and no
\* order of another user, newest first; each returned order carries exactly
\* the order items stored for it, each with its product, and an order with
\* no item is returned with an empty item list.
C22_GetOrdersGrouped ==
    [][\A userId \in TargetIds \cup {"x9"} :
         GetOrders(userId)
         => LET result == out'.result
                stored(r) == SelectSeq(orderItems, LAMBDA i : i.orderId = r.order.id)
            IN /\ [i \in 1..Len(result) |-> result[i].order] = NewestFirst(userId)
               /\ \A i \in 1..Len(result) :
                    /\ Len(result[i].orderItems) = Len(stored(result[i]))
                    /\ {result[i].orderItems[k].item :
                           k \in 1..Len(result[i].orderItems)}
                       = {stored(result[i])[k] : k \in 1..Len(stored(result[i]))}
                    /\ \A k \in 1..Len(result[i].orderItems) :
                         result[i].orderItems[k].product.id
                            = result[i].orderItems[k].item.productId]_vars

\* getOrders returned two orders of the user, the newer one without items
\* and the older one with two.
C22_Witness ==
    /\ out.op = "getOrders"
    /\ Len(out.result) = 2
    /\ out.result[1].order.id = Id("o", 2)
    /\ Len(out.result[1].orderItems) = 0
    /\ Len(out.result[2].orderItems) = 2
-----------------------------------------------------------------------------
(* removeFromCart and clearCart (SpecCartRemove) *)

\* The cart rows, in order, that satisfy Kept.
CartWhere(table, Kept(_)) == SelectSeq(table, Kept)

\* C23: removeFromCart(u, p) and clearCart(u) never throw and change nothing
\* when no cart row matches; removeFromCart(u, p) deletes exactly the rows of
\* (u, p) and clearCart(u) exactly the rows of user u; the cart rows of every
\* other user are left unchanged.
C23_CartDeletesFramed ==
    [][/\ \A u \in CartUsers, p \in CartProducts :
            RemoveFromCart(u, p)
            => /\ ~out'.threw
               /\ CartRows(u, p) = {} => cartItems' = cartItems
               /\ \A i \in 1..Len(cartItems') :
                    ~(cartItems'[i].userId = u /\ cartItems'[i].productId = p)
               /\ cartItems' = CartWhere(cartItems,
                                  LAMBDA row : row.userId # u \/ row.productId # p)
               /\ \A v \in CartUsers \ {u} :
                    CartWhere(cartItems', LAMBDA row : row.userId = v)
                       = CartWhere(cartItems, LAMBDA row : row.userId = v)
       /\ \A u \in CartUsers :
            ClearCart(u)
            => /\ ~out'.threw
               /\ (\A i \in 1..Len(cartItems) : cartItems[i].userId # u)
                     => cartItems' = cartItems
               /\ \A i \in 1..Len(cartItems') : cartItems'[i].userId # u
               /\ \A v \in CartUsers \ {u} :
                    CartWhere(cartItems', LAMBDA row : row.userId = v)
                       = CartWhere(cartItems, LAMBDA row : row.userId = v)]_vars

\* removeFromCart deleted a row while another user holds the same product
\* and the user holds another product.
C23_Witness ==
    /\ out.op = "removeFromCart"
    /\ out.rowCount = 1
    /\ \E i \in 1..Len(cartItems) :
         cartItems[i].productId = out.productId /\ cartItems[i].userId # out.userId
    /\ \E i \in 1..Len(cartItems) :
         cartItems[i].productId # out.productId /\ cartItems[i].userId = out.userId
-----------------------------------------------------------------------------
(* upsertUser (SpecUpsert) *)

-----------------------------------------------------------------------------
(* Re-review of a prescription (SpecReview) *)

\* C25: updatePrescriptionStatus sets status, review notes and reviewer
\* together: after a review that completes, the prescription carries the
\* status and the reviewer of this review and the notes of this review, none
\* when the review gives none; notes of an earlier review never remain.
C25_ReviewOverwritten ==
    [][\A review \in Reviews :
         (/\ UpdatePrescriptionStatus(review.id, review.status, review.reviewNotes,
                                      review.reviewedBy)
          /\ ~out'.threw)
         => \A p \in prescriptions' :
              p.id = review.id
              => /\ p.status = review.status
                 /\ p.reviewedBy = review.reviewedBy
                 /\ p.reviewNotes = IF review.reviewNotes = Undefined THEN NULL
                                    ELSE review.reviewNotes]_vars
-----------------------------------------------------------------------------
(* The direction of an order's status (SpecOrderLife) *)

\* C26: an order's status only moves forward: an order whose status is no
\* longer "pending" is never set back to "pending" by a later step.
C26_StatusNeverBackToPending ==
    [][\A i \in 1..Len(orders) :
         (i <= Len(orders') /\ orders[i].status # "pending")
         => orders'[i].status # "pending"]_vars
-----------------------------------------------------------------------------
(* Brands of a seeding run (SpecSeed) *)

\* The distinct slugs of the brand names of a catalog.
BrandSlugs(catalog) == {Slug(BrandOf(catalog[i])) : i \in 1..Len(catalog)}

\* C27: a seeding run that gets past its categories creates exactly one Brand
\* row per distinct brand slug of the catalog, and this number is the brands
\* count of the returned summary.
C27_OneBrandPerSlug ==
    [][\A catalog \in Catalogs \cap CatalogOf(out') :
         \A stock \in [1..Len(catalog) -> StockDraws] :
           (/\ SeedAuthenticCatalog(catalog, stock)
            /\ categories' # categories)
           => /\ Cardinality(brands' \ brands) = Cardinality(BrandSlugs(catalog))
              /\ out'.brands = Cardinality(BrandSlugs(catalog))]_vars
-----------------------------------------------------------------------------
(* Products of a seeding run (SpecSeedKeys) *)

\* The distinct (name, brand, price) triples of a catalog.
Triples(catalog) ==
    {<<ProductNameOf(catalog[i]), BrandOf(catalog[i]), PriceOf(catalog[i])>> :
        i \in 1..Len(catalog)}

\* C28: a seeding run that completes creates one product per distinct (name,
\* brand, price) triple of the catalog (an item is skipped iff an earlier
\* item has the same triple), which is the products count of its summary,
\* and the products it creates have pairwise distinct slugs.
C28_OneProductPerTriple ==
    [][\A catalog \in HyphenCatalogs \cap CatalogOf(out') :
         \A stock \in [1..Len(catalog) -> {50}] :
           (SeedAuthenticCatalog(catalog, stock) /\ ~out'.threw)
           => LET created == products' \ products
              IN /\ Cardinality(created) = Cardinality(Triples(catalog))
                 /\ out'.products = Cardinality(Triples(catalog))
                 /\ Cardinality({p.slug : p \in created}) = Cardinality(created)]_vars
-----------------------------------------------------------------------------
(* Concurrent registration (SpecRegisterConc) *)

\* C29: when register requests with the same username or e-mail run
\* concurrently, at most one user row with that username and with that e-mail
\* exists, and no register request is answered 500: the one that loses is
\* answered 400 like a sequential duplicate.
C29_ConcurrentDuplicateAnswered400 ==
    /\ \A u, v \in users :
         (u.username = v.username \/ u.email = v.email) => u = v
    /\ out.op = "POST /api/auth/register" => out.status \in {200, 400}

\* C30: revocation takes effect on the next request.  When setUserAdmin(u,
\* false) completes the admin flag of u is off, and when
\* removeAdminPermission(u, P) completes u holds no row for P; every admin
\* request by an authenticated caller whose flag is off is answered 403, and
\* so is every request for a route guarded by P by a caller holding no row
\* for P; a denied request on a guarded route writes nothing.
C30_RevocationOnNextRequest ==
    [][/\ \A u \in ExternalSubs :
            SetUserAdmin(u, FALSE, Undefined) =>
                \A row \in users' : row.id = u => ~row.isAdmin
       /\ \A u \in ExternalSubs, p \in PermissionNames :
            RemoveAdminPermission(u, p) =>
                \A k \in 1..Len(adminPermissions') :
                    ~(/\ adminPermissions'[k].userId = u
                      /\ adminPermissions'[k].permission = p)
       /\ \A route \in AdminRouteNames \cap {out'.op} :
            \A req \in AdminRequests(route) :
              (AdminRoute(route, req) /\ Authenticated(req)) =>
                  /\ ~AdminFlag(req.sub) =>
                        /\ out'.status = 403
                        /\ DataUnchanged
                  /\ (/\ route \in GuardedAdminRoutes
                      /\ ~HoldsRow(req.sub, NamedPermission(route))) =>
                        /\ out'.status = 403
                        /\ ~out'.handler
                        /\ DataUnchanged
      ]_vars

\* C30 witness: a caller that was made admin and granted a permission row,
\* and whose admin flag was switched off afterwards, has been answered 403 on
\* the route guarded by the row it still holds.
C30_Witness ==
    /\ out.op \in GuardedAdminRoutes
    /\ out.status = 403
    /\ \E u \in users :
          /\ u.id \in ExternalSubs
          /\ ~u.isAdmin
          /\ u.adminRole = "super_admin"
          /\ HoldsRow(u.id, NamedPermission(out.op))

====
